---- MODULE Spec2Model ----
(***************************************************************************)
(* Backup Transfer & Retention Engine of the backup_sync add-on.           *)
(*                                                                         *)
(*   SpecTransfer  BackupProcessor.process_backup: validation, wait,       *)
(*                 checksum, copy / verify / retry loop, result.            *)
(*   SpecCleanup   CleanupManager: get_cleanup_plan, cleanup_old_backups.   *)
(*   SpecWatcher   BackupWatcher: on_created / on_moved with debouncing.    *)
(*   SpecCache     BackupWatcher with a full cache of recent names.        *)
(*   SpecOrchestrator  BackupOrchestrator: sync_existing_backups,          *)
(*                 process_single_backup.                                  *)
(*   SpecMonitor   start_monitoring / stop_monitoring and the watcher's    *)
(*                 BackupProcessor threads.                                *)
(*   SpecDetect    events for files and directories, up to the start of    *)
(*                 the thread.                                             *)
(*   SpecStable    BackupWatcher.wait_for_file_stable (SpecStableFair:     *)
(*                 with the calling thread kept running).                  *)
(*   SpecRace      two BackupProcessor threads for one file name.          *)
(*   SpecStatus    get_status read while results are counted.              *)
(*   SpecStop      start_monitoring and a concurrent stop_monitoring       *)
(*                 (SpecStopFair: with both threads kept running).         *)
(*   SpecCallbacks registered callbacks and _process_in_thread.            *)
(*   SpecSync      BackupSyncHandler.process_backup (backup_sync.py).      *)
(*                                                                         *)
(* Sizes are counted in GiB (10 * 1024**3 bytes is 10), times in seconds.  *)
(***************************************************************************)
EXTENDS Integers, Sequences, FiniteSets, TLC

VARIABLES
    \* ---- file system and configuration
    srcDir,             \* source directory: file name -> file
    dstDir,             \* destination directory: file name -> file
    config,             \* Config: max_copies, wait_time, max_retries, retry_delay
    \* ---- BackupProcessor.process_backup (one call)
    pc,                 \* position of the call in process_backup
    backup_path,        \* the file name the call was given
    phase,              \* "pre": first validation, "post": re-validation after the wait
    size1,              \* _validate_source_file: first size reading
    source_checksum,    \* None or the digest of the source
    attempt,            \* loop variable of _copy_with_retry
    last_error,         \* last_error of _copy_with_retry
    copy_result,        \* what _copy_with_retry returned
    result,             \* the BackupResult returned, NoResult before
    attemptLog,         \* history: the attempts made, in order
    sleepLog,           \* history: the calls of time.sleep, in order
    notifications,      \* history: the notifications sent, in order
    srcSeen,            \* history: the source file as the first validation saw it
    dst0,               \* history: the destination directory when the call began
    writes,             \* history: how often the producer rewrote the source
    \* ---- CleanupManager
    max_backups,        \* CleanupManager.max_backups
    cleanup,            \* the last call of the manager and what it returned
    \* ---- BackupWatcher
    now,                \* the clock datetime.now() reads
    recently_processed, \* file name -> time of the last recorded event, or None
    handler,            \* thread -> the event it handles and its position
    eventLog,           \* history: the qualifying events, with what became of them
    \* ---- BackupOrchestrator
    backups_processed,  \* counter of successful transfers
    backups_failed,     \* counter of failed transfers
    last_backup_time,   \* None or the time of the last success
    lock,               \* BackupOrchestrator.lock: "free" or the call that holds it
    call,               \* the call of the orchestrator in progress and its locals
    orchLog,            \* history: what the calls of the orchestrator did, in order
    monitor,            \* start_monitoring: is_monitoring, is_running, position
    threads,            \* the BackupProcessor-<name> threads started and not yet run
    \* ---- BackupWatcher.wait_for_file_stable
    stable,             \* the call in progress: its arguments, locals and samples
    \* ---- a second BackupProcessor-<name> thread
    worker2,            \* its position in process_backup and the locals of its call
    \* ---- BackupOrchestrator: a run inside `with self.lock`, a call of get_status
    recording,          \* position of the run that counts a result
    status,             \* get_status: its position and the fields it has read
    \* ---- BackupOrchestrator.stop_monitoring, statement by statement
    stopCall,           \* thread -> its position in stop_monitoring
    stops,              \* history: the calls of stop_monitoring from another thread
    \* ---- BackupWatcher: registered callbacks and one _process_in_thread
    callbacks,          \* event type -> the number of callbacks registered for it
    inThread,           \* position of the thread in _process_in_thread
    fired,              \* history: the calls of _trigger_callbacks by the thread
    \* ---- BackupSyncHandler (backup_sync.py)
    max_copies,         \* BackupSyncHandler.max_copies
    processing_files,   \* the set of paths being processed
    syncCall            \* thread -> its call of process_backup: position and locals

fsVars == <<srcDir, dstDir, config>>
transferVars == <<pc, backup_path, phase, size1, source_checksum, attempt, last_error,
                  copy_result, result, attemptLog, sleepLog, notifications, srcSeen,
                  dst0, writes>>
cleanupVars == <<max_backups, cleanup>>
watcherVars == <<now, recently_processed, handler, eventLog>>
monitorVars == <<monitor, threads>>
orchestratorVars == <<backups_processed, backups_failed, last_backup_time, lock, call,
                      orchLog, monitorVars>>
stableVars == <<stable>>
raceVars == <<worker2>>
statusVars == <<recording, status>>
stopVars == <<stopCall, stops>>
callbackVars == <<callbacks, inThread, fired>>
syncVars == <<max_copies, processing_files, syncCall>>
furtherVars == <<raceVars, statusVars, stopVars, callbackVars, syncVars>>
vars == <<fsVars, transferVars, cleanupVars, watcherVars, orchestratorVars, stableVars,
          furtherVars>>

----------------------------------------------------------------------------
(* Bounds of the model *)

MaxRetries == 3         \* max_retries ranges over 1..MaxRetries
MaxDelay == 2           \* retry_delay ranges over 0..MaxDelay
MaxWait == 1            \* wait_time ranges over 0..MaxWait
MaxData == 2            \* file contents are 0..MaxData
DigestRange == 2        \* digests are 0..DigestRange-1: distinct contents may collide
MaxWrites == 1          \* how often the producer rewrites the source during a call
MaxMtime == 3           \* modification times are 1..MaxMtime
MaxCap == 3             \* max_backups ranges up to MaxCap ...
NegCaps == 1            \* ... and down to -NegCaps
MaxTime == 3            \* the clock runs from 0 to MaxTime
MaxEvents == 2          \* file system events delivered to the watcher
MaxResults == 3         \* results of process_backup the orchestrator counts
MaxStops == 2           \* calls of stop_monitoring from another thread
MaxCallbacks == 1       \* callbacks registered for an event type

\* Python's None, for values that are otherwise numbers >= 0.
None == 0 - 1

----------------------------------------------------------------------------
(* Files and directories *)

\* A file name is the sequence of its dot-separated components.
Names == { <<"a", "tar">>, <<"b", "tar">>, <<"c", "tar">>,
           <<"d", "tar", "gz">>, <<"notes", "txt">> }

\* Path.suffix: the last component, when there is more than one.
Suffix(name) == IF Len(name) >= 2 THEN name[Len(name)] ELSE ""

NoFile == [kind |-> "none", size |-> 0, data |-> 0, mtime |-> 0]
Directory == [kind |-> "dir", size |-> 0, data |-> 0, mtime |-> 1]
RegularFile(s, d, m) == [kind |-> "file", size |-> s, data |-> d, mtime |-> m]

Exists(f) == f.kind # "none"
IsFile(f) == f.kind = "file"

EmptyDir == [n \in Names |-> NoFile]

----------------------------------------------------------------------------
(* BackupProcessor (backup/backup_processor.py) *)

\* _should_calculate_checksum: checksums are computed below 10 GiB.
ChecksumLimit == 10

\* Sizes of source files: empty, below the checksum ceiling, at the ceiling.
SizeSet == {0, 2, ChecksumLimit}

Contents == 0..MaxData

\* _calculate_checksum: a digest of the content; contents may collide.
Md5(data) == data % DigestRange

BackupResult(ok, ssize, dsize, err, detail, n, cm) ==
    [success |-> ok, source_size |-> ssize, destination_size |-> dsize,
     error |-> err, detail |-> detail, attempts |-> n, checksum_match |-> cm]

NoResult == BackupResult(FALSE, 0, 0, "(no result)", "", 0, FALSE)
NoCopyResult == [success |-> FALSE, error |-> "(none)", attempts |-> 0,
                 checksum_match |-> FALSE]

\* Mutant of ValidateChecks: the check for an empty file is missing.
ValidateChecks_NoEmptyCheck(f, name) ==
    IF ~Exists(f) THEN "File does not exist"
    ELSE IF ~IsFile(f) THEN "Not a regular file"
    ELSE IF Suffix(name) # "tar" THEN "Not a .tar file"
    ELSE "Valid"

\* _validate_source_file, lines 155-169: the checks before the size is read twice.
ValidateChecks(f, name) ==
    IF ~Exists(f) THEN "File does not exist"
    ELSE IF ~IsFile(f) THEN "Not a regular file"
    ELSE IF f.size = 0 THEN "File is empty"
    ELSE IF Suffix(name) # "tar" THEN "Not a .tar file"
    ELSE "Valid"

\* process_backup, lines 83-91 and 100-108: the early return of a failed validation.
\* BackupResult.attempts keeps its default, 1. No notification is sent.
ReturnInvalid(msg) ==
    /\ result' = BackupResult(FALSE, 0, 0,
                     IF phase = "pre" THEN "Source validation failed"
                                      ELSE "Source changed during wait",
                     msg, 1, FALSE)
    /\ pc' = "done"

\* process_backup, lines 75-82: start notification, then the first validation.
ProcessBackup ==
    /\ pc = "start"
    /\ notifications' = Append(notifications, "Backup Copy Started")
    /\ pc' = "validate"
    /\ UNCHANGED <<fsVars, backup_path, phase, size1, source_checksum, attempt,
                   last_error, copy_result, result, attemptLog, sleepLog, srcSeen,
                   dst0, writes>>

\* _validate_source_file, lines 153-174: the checks, the first size reading, and
\* the start of the 0.1 s sleep before the second reading.
Validate ==
    /\ pc = "validate"
    /\ LET f == srcDir[backup_path]
           msg == ValidateChecks(f, backup_path)
       IN /\ srcSeen' = IF phase = "pre" THEN f ELSE srcSeen
          /\ IF msg = "Valid"
                THEN /\ size1' = f.size
                     /\ sleepLog' = Append(sleepLog,
                            [kind |-> "settle", after |-> 0, secs |-> 0])
                     /\ pc' = "settle"
                     /\ UNCHANGED result
                ELSE /\ ReturnInvalid(msg)
                     /\ UNCHANGED <<size1, sleepLog>>
    /\ UNCHANGED <<fsVars, backup_path, phase, source_checksum, attempt, last_error,
                   copy_result, attemptLog, notifications, dst0, writes>>

\* _validate_source_file, lines 175-183, and process_backup, lines 93-96: the second
\* size reading (stat raises when the file is gone: "Validation error").
Settle ==
    /\ pc = "settle"
    /\ LET f == srcDir[backup_path]
       IN IF ~Exists(f) THEN ReturnInvalid("Validation error")
          ELSE IF size1 # f.size THEN ReturnInvalid("File is still being written")
          ELSE /\ pc' = IF phase = "pre" /\ config.wait_time > 0
                           THEN "wait" ELSE "checksum"
               /\ UNCHANGED result
    /\ UNCHANGED <<fsVars, backup_path, phase, size1, source_checksum, attempt,
                   last_error, copy_result, attemptLog, sleepLog, notifications,
                   srcSeen, dst0, writes>>

\* process_backup, lines 94-99: time.sleep(wait_time), then the re-validation.
Wait ==
    /\ pc = "wait"
    /\ sleepLog' = Append(sleepLog,
           [kind |-> "wait", after |-> 0, secs |-> config.wait_time])
    /\ phase' = "post"
    /\ pc' = "validate"
    /\ UNCHANGED <<fsVars, backup_path, size1, source_checksum, attempt, last_error,
                   copy_result, result, attemptLog, notifications, srcSeen, dst0,
                   writes>>

\* process_backup, lines 110-118, and the loop header of _copy_with_retry, line 229.
\* stat and open raise when the source is gone: the call ends by raising.
Checksum ==
    /\ pc = "checksum"
    /\ LET f == srcDir[backup_path]
       IN IF ~Exists(f)
             THEN /\ pc' = "raised"
                  /\ UNCHANGED <<source_checksum, attempt>>
             ELSE /\ source_checksum' =
                         IF f.size < ChecksumLimit THEN Md5(f.data) ELSE None
                  /\ attempt' = 1
                  /\ pc' = IF 1 <= config.max_retries THEN "copy" ELSE "exhausted"
    /\ UNCHANGED <<fsVars, backup_path, phase, size1, last_error, copy_result, result,
                   attemptLog, sleepLog, notifications, srcSeen, dst0, writes>>

\* What shutil.copy2 may do with an existing source: copy content and metadata;
\* return with a short or a garbled destination; raise before or while writing.
CopyOutcomes == {"copied", "short", "garbled", "error", "error_partial"}

\* The modification time of a file written now and not set by copystat: the latest.
FreshMtime == MaxMtime

\* A copy cut short: one GiB is missing.
Truncated(f, m) == RegularFile(f.size - 1, f.data, m)

\* _copy_with_retry, lines 251-253: an exception in the attempt.
CopyFailed(msg) ==
    /\ last_error' = msg
    /\ attemptLog' = Append(attemptLog, [n |-> attempt, verified |-> FALSE])
    /\ pc' = "retry"

\* _copy_with_retry, lines 232-238: remove the destination left from before, copy.
Copy ==
    /\ pc = "copy"
    /\ LET src == srcDir[backup_path]
           removed == [dstDir EXCEPT ![backup_path] = NoFile]
       IN \/ /\ ~Exists(src)
             /\ dstDir' = removed
             /\ CopyFailed("No such file or directory")
          \/ /\ Exists(src)
             /\ \E outcome \in CopyOutcomes :
                  CASE outcome = "copied" ->
                         /\ dstDir' = [removed EXCEPT ![backup_path] = src]
                         /\ pc' = "verify"
                         /\ UNCHANGED <<last_error, attemptLog>>
                    [] outcome = "short" ->
                         /\ dstDir' = [removed EXCEPT
                                          ![backup_path] = Truncated(src, src.mtime)]
                         /\ pc' = "verify"
                         /\ UNCHANGED <<last_error, attemptLog>>
                    [] outcome = "garbled" ->
                         /\ \E d \in Contents \ {src.data} :
                              dstDir' = [removed EXCEPT
                                            ![backup_path] = [src EXCEPT !.data = d]]
                         /\ pc' = "verify"
                         /\ UNCHANGED <<last_error, attemptLog>>
                    [] outcome = "error" ->
                         /\ dstDir' = removed
                         /\ CopyFailed("Input/output error")
                    [] outcome = "error_partial" ->
                         /\ dstDir' = [removed EXCEPT
                                          ![backup_path] = Truncated(src, FreshMtime)]
                         /\ CopyFailed("Input/output error")
    /\ UNCHANGED <<srcDir, config, backup_path, phase, size1, source_checksum, attempt,
                   copy_result, result, sleepLog, notifications, srcSeen, dst0, writes>>

\* Mutant of VerifyCopy: the sizes are not compared.
VerifyCopy_NoSizeCheck(src, dst, sum) ==
    IF ~Exists(dst)
       THEN [ok |-> FALSE, error |-> "Destination file not created", match |-> FALSE]
    ELSE IF ~Exists(src)
       THEN [ok |-> FALSE, error |-> "Verification error", match |-> FALSE]
    ELSE IF sum # None
       THEN IF sum # Md5(dst.data)
               THEN [ok |-> FALSE, error |-> "Checksum mismatch", match |-> FALSE]
               ELSE [ok |-> TRUE, error |-> "", match |-> TRUE]
    ELSE [ok |-> TRUE, error |-> "", match |-> FALSE]

\* _verify_copy: (is_valid, error_message, checksum_match).
VerifyCopy(src, dst, sum) ==
    IF ~Exists(dst)
       THEN [ok |-> FALSE, error |-> "Destination file not created", match |-> FALSE]
    ELSE IF ~Exists(src)
       THEN [ok |-> FALSE, error |-> "Verification error", match |-> FALSE]
    ELSE IF src.size # dst.size
       THEN [ok |-> FALSE, error |-> "Size mismatch", match |-> FALSE]
    ELSE IF sum # None
       THEN IF sum # Md5(dst.data)
               THEN [ok |-> FALSE, error |-> "Checksum mismatch", match |-> FALSE]
               ELSE [ok |-> TRUE, error |-> "", match |-> TRUE]
    ELSE [ok |-> TRUE, error |-> "", match |-> FALSE]

\* _copy_with_retry, lines 240-249: verify; return at once when the copy verified.
Verify ==
    /\ pc = "verify"
    /\ LET v == VerifyCopy(srcDir[backup_path], dstDir[backup_path], source_checksum)
       IN IF v.ok
             THEN /\ copy_result' = [success |-> TRUE, error |-> "",
                                     attempts |-> attempt, checksum_match |-> v.match]
                  /\ attemptLog' = Append(attemptLog,
                                          [n |-> attempt, verified |-> TRUE])
                  /\ pc' = "result"
                  /\ UNCHANGED last_error
             ELSE /\ last_error' = v.error
                  /\ attemptLog' = Append(attemptLog,
                                          [n |-> attempt, verified |-> FALSE])
                  /\ pc' = "retry"
                  /\ UNCHANGED copy_result
    /\ UNCHANGED <<fsVars, backup_path, phase, size1, source_checksum, attempt, result,
                   sleepLog, notifications, srcSeen, dst0, writes>>

\* Mutant of BackoffDelay: the delay does not grow with the attempt.
BackoffDelay_Constant(retry_delay, n) == retry_delay

\* The backoff of _copy_with_retry, line 257.
BackoffDelay(retry_delay, n) == retry_delay * n

\* Mutant of AttemptsRemain: off by one.
AttemptsRemain_OffByOne(n, max_retries) == n <= max_retries

\* _copy_with_retry, lines 229 and 256: attempt n was not the last one.
AttemptsRemain(n, max_retries) == n < max_retries

\* _copy_with_retry, lines 255-259 and the loop header: sleep unless this was the
\* last attempt, then the next attempt or the end of the loop.
Retry ==
    /\ pc = "retry"
    /\ IF AttemptsRemain(attempt, config.max_retries)
          THEN /\ sleepLog' = Append(sleepLog,
                      [kind |-> "backoff", after |-> attempt,
                       secs |-> BackoffDelay(config.retry_delay, attempt)])
               /\ attempt' = attempt + 1
               /\ pc' = "copy"
          ELSE /\ pc' = "exhausted"
               /\ UNCHANGED <<sleepLog, attempt>>
    /\ UNCHANGED <<fsVars, backup_path, phase, size1, source_checksum, last_error,
                   copy_result, result, attemptLog, notifications, srcSeen, dst0,
                   writes>>

\* _copy_with_retry, lines 261-266: all attempts failed.
Exhausted ==
    /\ pc = "exhausted"
    /\ copy_result' = [success |-> FALSE, error |-> "Failed after max_retries attempts",
                       attempts |-> config.max_retries, checksum_match |-> FALSE]
    /\ pc' = "result"
    /\ UNCHANGED <<fsVars, backup_path, phase, size1, source_checksum, attempt,
                   last_error, result, attemptLog, sleepLog, notifications, srcSeen,
                   dst0, writes>>

\* process_backup, lines 123-144: build the result (stat of the source, and of the
\* destination after a success, raise when the file is gone), notify, return.
Result ==
    /\ pc = "result"
    /\ LET src == srcDir[backup_path]
           dst == dstDir[backup_path]
       IN IF ~Exists(src) \/ (copy_result.success /\ ~Exists(dst))
             THEN /\ pc' = "raised"
                  /\ UNCHANGED <<result, notifications>>
             ELSE /\ result' = BackupResult(copy_result.success, src.size,
                                    IF copy_result.success THEN dst.size ELSE 0,
                                    copy_result.error,
                                    IF copy_result.success THEN "" ELSE last_error,
                                    copy_result.attempts, copy_result.checksum_match)
                  /\ notifications' = Append(notifications,
                         IF copy_result.success THEN "Backup Copied Successfully"
                                                ELSE "Backup Copy Failed")
                  /\ pc' = "done"
    /\ UNCHANGED <<fsVars, backup_path, phase, size1, source_checksum, attempt,
                   last_error, copy_result, attemptLog, sleepLog, srcSeen, dst0, writes>>

Running == pc \notin {"idle", "done", "raised"}

\* Environment: the source file is deleted while the call runs.
RemoveSource ==
    /\ Running
    /\ Exists(srcDir[backup_path])
    /\ srcDir' = [srcDir EXCEPT ![backup_path] = NoFile]
    /\ UNCHANGED <<dstDir, config, transferVars>>

\* Environment: the producer is still writing the source. It has finished when the
\* validation (the re-validation, with a wait_time) has passed: from then on an
\* artifact is not changed in place.
ProducerWrites ==
    /\ pc \in {"start", "validate", "settle", "wait"}
    /\ writes < MaxWrites
    /\ IsFile(srcDir[backup_path])
    /\ \E s \in SizeSet \ {srcDir[backup_path].size}, d \in Contents :
         srcDir' = [srcDir EXCEPT ![backup_path] =
                       RegularFile(s, IF s = 0 THEN 0 ELSE d, FreshMtime)]
    /\ writes' = writes + 1
    /\ UNCHANGED <<dstDir, config, pc, backup_path, phase, size1, source_checksum,
                   attempt, last_error, copy_result, result, attemptLog, sleepLog,
                   notifications, srcSeen, dst0>>

----------------------------------------------------------------------------
(* The states in which a component has not been used *)

NoCall == [op |-> "none", force |-> FALSE, before |-> EmptyDir, listing |-> <<>>,
           failing |-> {}, files_to_delete |-> <<>>, attempted |-> <<>>,
           deleted_files |-> <<>>, needed |-> FALSE, current_count |-> 0,
           to_delete |-> <<>>, to_keep |-> <<>>, freed_space |-> 0]

Handlers == {"t1", "t2"}
IdleHandler == [at |-> "idle", id |-> 0, name |-> <<>>]

TransferIdle ==
    /\ pc = "idle" /\ backup_path = <<>> /\ phase = "pre" /\ size1 = 0
    /\ source_checksum = None /\ attempt = 0 /\ last_error = ""
    /\ copy_result = NoCopyResult /\ result = NoResult
    /\ attemptLog = <<>> /\ sleepLog = <<>> /\ notifications = <<>>
    /\ srcSeen = NoFile /\ dst0 = EmptyDir /\ writes = 0

CleanupIdle == max_backups = 1 /\ cleanup = NoCall

WatcherIdle ==
    /\ now = 0
    /\ recently_processed = [n \in Names |-> None]
    /\ handler = [h \in Handlers |-> IdleHandler]
    /\ eventLog = <<>>

\* wait_for_file_stable has not been called.
NoStableCall == [at |-> "idle", max_checks |-> 0, check |-> 0, last_size |-> None,
                 stable_checks |-> 0, samples |-> <<>>, ret |-> FALSE]

StableIdle == stable = NoStableCall

\* No second thread is inside process_backup.
NoWorker2 == [at |-> "idle", name |-> <<>>, attempt |-> 0, source_checksum |-> None,
              success |-> FALSE]
RaceIdle == worker2 = NoWorker2

\* No run is counting a result and get_status is not being called.
NoStatus == [at |-> "idle", backups_processed |-> 0, backups_failed |-> 0,
             last_backup_time |-> None]
StatusIdle == recording = "idle" /\ status = NoStatus

\* The thread that runs start_monitoring, and another thread of the process.
Callers == {"main", "other"}

\* No thread is inside stop_monitoring.
StopIdle == stopCall = [t \in Callers |-> "none"] /\ stops = 0

\* BackupWatcher.__init__, lines 37-42: the event types, each with an empty list.
EventTypes == {"backup_detected", "backup_processing_started",
               "backup_processing_completed", "backup_processing_failed"}

\* No callback is registered and no thread is inside _process_in_thread.
CallbacksIdle ==
    /\ callbacks = [event_type \in EventTypes |-> 0]
    /\ inThread = "none" /\ fired = <<>>

\* No thread is inside BackupSyncHandler.process_backup.
NoSyncCall == [at |-> "idle", path |-> <<>>, file_size |-> 0, how |-> ""]
SyncIdle ==
    /\ max_copies = 1 /\ processing_files = {}
    /\ syncCall = [t \in Handlers |-> NoSyncCall]

FurtherIdle == RaceIdle /\ StatusIdle /\ StopIdle /\ CallbacksIdle /\ SyncIdle

ConfigDefault == [wait_time |-> 0, max_retries |-> 1, retry_delay |-> 0]

NoOrchestratorCall ==
    [op |-> "none", at |-> "idle", run |-> 0, name |-> <<>>, source_backups |-> <<>>,
     i |-> 0, synced_backups |-> <<>>, raised |-> FALSE]

\* start_monitoring has not been called; the process runs.
NotMonitoring == [is_monitoring |-> FALSE, is_running |-> FALSE, at |-> "idle"]

\* BackupOrchestrator.__init__, lines 73-82.
OrchestratorIdle ==
    /\ backups_processed = 0 /\ backups_failed = 0 /\ last_backup_time = None
    /\ lock = "free" /\ call = NoOrchestratorCall /\ orchLog = <<>>
    /\ monitor = NotMonitoring /\ threads = <<>>

----------------------------------------------------------------------------
(* SpecTransfer: one call of BackupProcessor.process_backup *)

\* The names a call is given: an artifact, a compressed one, another file.
TransferNames == { <<"a", "tar">>, <<"d", "tar", "gz">>, <<"notes", "txt">> }

\* What may lie at the source path when the call begins.
SourceFiles ==
    {NoFile, Directory, RegularFile(0, 0, 1)}
        \cup {RegularFile(s, d, 1) : s \in SizeSet \ {0}, d \in Contents}

\* What may lie at the destination path when the call begins: nothing, or a copy
\* made earlier.
DestFiles == {NoFile, RegularFile(2, 0, 1)}

Configs == [wait_time : 0..MaxWait, max_retries : 1..MaxRetries,
            retry_delay : 0..MaxDelay]

InitTransfer ==
    /\ backup_path \in TransferNames
    /\ \E f \in SourceFiles : srcDir = [EmptyDir EXCEPT ![backup_path] = f]
    /\ \E g \in DestFiles : dstDir = [EmptyDir EXCEPT ![backup_path] = g]
    /\ config \in Configs
    /\ pc = "start" /\ phase = "pre" /\ size1 = 0
    /\ source_checksum = None /\ attempt = 0 /\ last_error = ""
    /\ copy_result = NoCopyResult /\ result = NoResult
    /\ attemptLog = <<>> /\ sleepLog = <<>> /\ notifications = <<>>
    /\ srcSeen = NoFile /\ dst0 = dstDir /\ writes = 0
    /\ CleanupIdle /\ WatcherIdle /\ OrchestratorIdle /\ StableIdle
    /\ FurtherIdle

NextTransfer ==
    /\ \/ ProcessBackup \/ Validate \/ Settle \/ Wait \/ Checksum
       \/ Copy \/ Verify \/ Retry \/ Exhausted \/ Result
       \/ RemoveSource \/ ProducerWrites
    /\ UNCHANGED <<cleanupVars, watcherVars, orchestratorVars, stableVars,
                   furtherVars>>

SpecTransfer == InitTransfer /\ [][NextTransfer]_vars

----------------------------------------------------------------------------
(* Claims about process_backup *)

Attempting == pc \in {"copy", "verify"}
Exhaustion == "Failed after max_retries attempts"

\* C1: when process_backup returns a result with success = true, the destination
\* file exists, its size is the size of the source, and, when a source checksum was
\* computed, the checksum of the destination equals it - also after failed attempts.
C1_SuccessIsVerifiedCopy ==
    (pc = "done" /\ result.success) =>
        LET src == srcDir[backup_path]
            dst == dstDir[backup_path]
        IN /\ IsFile(dst)
           /\ dst.size = src.size
           /\ result.destination_size = dst.size
           /\ result.source_size = src.size
           /\ source_checksum # None =>
                 /\ Md5(dst.data) = source_checksum
                 /\ Md5(src.data) = source_checksum
                 /\ result.checksum_match

\* A success on the third attempt, after a failed copy and a failed verification,
\* with a checksum computed.
C1_Witness ==
    /\ pc = "done" /\ result.success /\ source_checksum # None
    /\ Len(attemptLog) = 3
    /\ dst0[backup_path] # NoFile

\* C2: attempts are numbered 1, 2, 3, ... without gaps, none follows a verified
\* one, there are at most max_retries; a successful result counts the attempts up
\* to the first verified one, a result of exhausted retries counts max_retries.
C2_AttemptOrdinals ==
    /\ \A i \in 1..Len(attemptLog) :
          /\ attemptLog[i].n = i
          /\ attemptLog[i].verified => i = Len(attemptLog)
    /\ Len(attemptLog) <= config.max_retries
    /\ Attempting =>
          /\ attempt = Len(attemptLog) + 1
          /\ attempt <= config.max_retries
          /\ \A i \in 1..Len(attemptLog) : ~attemptLog[i].verified
    /\ (pc = "done" /\ result.success) =>
          /\ attemptLog # <<>>
          /\ attemptLog[Len(attemptLog)].verified
          /\ result.attempts = Len(attemptLog)
    /\ (pc = "done" /\ result.error = Exhaustion) =>
          /\ ~result.success
          /\ result.attempts = config.max_retries
          /\ Len(attemptLog) = config.max_retries
          /\ \A i \in 1..Len(attemptLog) : ~attemptLog[i].verified

\* Both kinds of result: a success on attempt 2 of 3 ...
C2_Witness ==
    /\ pc = "done" /\ result.success /\ result.attempts = 2
    /\ config.max_retries = 3

\* ... and exhausted retries.
C2_WitnessExhausted ==
    pc = "done" /\ result.error = Exhaustion /\ result.attempts = 3

Backoffs == SelectSeq(sleepLog, LAMBDA e : e.kind = "backoff")

PreValidationFails(f, name) ==
    \/ f.kind = "none"
    \/ f.kind = "dir"
    \/ (f.kind = "file" /\ f.size = 0)
    \/ Suffix(name) # "tar"

FirstValidationDone == ~(pc = "start" \/ (pc = "validate" /\ phase = "pre"))

\* C4: when the source is missing, not a regular file, empty or of another
\* extension, process_backup returns a failed result at once: no copy attempt, no
\* sleep, and the destination directory as it was.
C4_InvalidSourceNoAttempt ==
    (FirstValidationDone /\ PreValidationFails(srcSeen, backup_path)) =>
        /\ pc = "done"
        /\ ~result.success
        /\ result.error = "Source validation failed"
        /\ attemptLog = <<>> /\ attempt = 0
        /\ sleepLog = <<>>
        /\ dstDir = dst0

\* An empty source, with a copy of the same name at the destination.
C4_Witness ==
    /\ pc = "done" /\ IsFile(srcSeen) /\ srcSeen.size = 0
    /\ Suffix(backup_path) = "tar"
    /\ IsFile(dstDir[backup_path])

TerminalNotifications ==
    SelectSeq(notifications,
              LAMBDA m : m \in {"Backup Copied Successfully", "Backup Copy Failed"})

\* C18: every call of process_backup that returns a result - a success, exhausted
\* retries, a failed pre-validation, a source found invalid after the wait - has
\* sent exactly one success or failure notification.
C18_TerminalNotification ==
    pc = "done" =>
        /\ Len(TerminalNotifications) = 1
        /\ TerminalNotifications[1] = IF result.success
                                         THEN "Backup Copied Successfully"
                                         ELSE "Backup Copy Failed"


----------------------------------------------------------------------------
(* CleanupManager (backup/cleanup_manager.py) *)

\* Path.glob("*.tar") and Path.glob("*.tar.gz") on a file name.
MatchesTar(name) == Len(name) >= 2 /\ name[Len(name)] = "tar"
MatchesTarGz(name) ==
    Len(name) >= 3 /\ name[Len(name) - 1] = "tar" /\ name[Len(name)] = "gz"

\* The sequences that list each element of S once: the orders in which a
\* directory may be read.
Orders(S) ==
    {o \in [1..Cardinality(S) -> S] : \A i, j \in DOMAIN o : i # j => o[i] # o[j]}

GlobTar(dir) == {n \in Names : Exists(dir[n]) /\ MatchesTar(n)}
GlobTarGz(dir) == {n \in Names : Exists(dir[n]) /\ MatchesTarGz(n)}

Entry(dir, n) == [name |-> n, mtime |-> dir[n].mtime, size |-> dir[n].size]

\* _get_backup_files: the *.tar files as the directory yields them, then the
\* *.tar.gz files, each as (file_path, st_mtime, st_size).
GetBackupFiles(dir, tars, gzs) ==
    [i \in 1..Len(tars) |-> Entry(dir, tars[i])]
        \o [i \in 1..Len(gzs) |-> Entry(dir, gzs[i])]

\* One step of list.sort(key=lambda x: x[1]): x goes behind the entries that are
\* not newer (the sort is stable).
InsertByMtime(acc, x) ==
    LET k == Cardinality({i \in 1..Len(acc) : acc[i].mtime <= x.mtime})
    IN SubSeq(acc, 1, k) \o <<x>> \o SubSeq(acc, k + 1, Len(acc))

RECURSIVE SortedPrefix(_, _)
SortedPrefix(files, n) ==
    IF n = 0 THEN <<>> ELSE InsertByMtime(SortedPrefix(files, n - 1), files[n])

\* Mutant of SortByMtime: the list is left in directory order.
SortByMtime_Unsorted(files) == files

\* backup_files.sort(key=lambda x: x[1]): oldest first.
SortByMtime(files) == SortedPrefix(files, Len(files))

Min(a, b) == IF a < b THEN a ELSE b
Max(a, b) == IF a > b THEN a ELSE b

\* Python's s[:k]: a negative k counts from the end.
SliceTo(s, k) ==
    IF k >= 0 THEN SubSeq(s, 1, Min(k, Len(s)))
              ELSE SubSeq(s, 1, Max(0, Len(s) + k))

\* Python's s[k:].
SliceFrom(s, k) ==
    IF k >= 0 THEN SubSeq(s, Min(k, Len(s)) + 1, Len(s))
              ELSE SubSeq(s, Max(0, Len(s) + k) + 1, Len(s))

FileNames(files) == [i \in 1..Len(files) |-> files[i].name]

RECURSIVE SumSizes(_, _)
SumSizes(files, n) == IF n = 0 THEN 0 ELSE SumSizes(files, n - 1) + files[n].size

\* get_cleanup_plan on the listing backup_files.
CleanupPlan(backup_files, max) ==
    IF backup_files = <<>>
       THEN [needed |-> FALSE, current_count |-> 0, max_allowed |-> max,
             to_delete |-> <<>>, to_keep |-> <<>>, freed_space |-> 0]
       ELSE LET sorted == SortByMtime(backup_files)
                current_count == Len(sorted)
                needs_cleanup == current_count > max
                to_delete_count == current_count - max
                files_to_delete == SliceTo(sorted, to_delete_count)
                files_to_keep == SliceFrom(sorted, to_delete_count)
            IN IF needs_cleanup
                  THEN [needed |-> TRUE, current_count |-> current_count,
                        max_allowed |-> max,
                        to_delete |-> FileNames(files_to_delete),
                        to_keep |-> FileNames(files_to_keep),
                        freed_space |-> SumSizes(files_to_delete, Len(files_to_delete))]
                  ELSE [needed |-> FALSE, current_count |-> current_count,
                        max_allowed |-> max, to_delete |-> <<>>,
                        to_keep |-> FileNames(sorted), freed_space |-> 0]

\* Mutant of SkipCleanup: the force flag is read the wrong way round.
SkipCleanup_ForceInverted(force, count, max) ==
    \/ force /\ count <= max
    \/ count - max <= 0 /\ force

\* cleanup_old_backups, lines 65 and 73-75: nothing to do, and not forced.
SkipCleanup(force, count, max) ==
    \/ ~force /\ count <= max
    \/ count - max <= 0 /\ ~force

\* Mutant of ToDeleteCount: one file too few is kept.
ToDeleteCount_OffByOne(count, max) == count - max + 1

\* cleanup_old_backups, line 73.
ToDeleteCount(count, max) == count - max

RECURSIVE DeleteFrom(_, _, _)
\* Mutant of DeleteLoop: the first failure ends the loop.
DeleteLoop_AbortOnFailure(files, failing) ==
    LET RECURSIVE Go(_)
        Go(i) == IF i > Len(files) \/ files[i].name \in failing
                    THEN [attempted |-> IF i > Len(files) THEN <<>> ELSE <<files[i].name>>,
                          deleted |-> <<>>]
                    ELSE LET rest == Go(i + 1)
                         IN [attempted |-> <<files[i].name>> \o rest.attempted,
                             deleted |-> <<files[i].name>> \o rest.deleted]
    IN Go(1)

\* cleanup_old_backups, lines 84-95: unlink each file; a failure is logged and the
\* loop goes on. failing: the files whose unlink raises.
DeleteLoop(files, failing) == DeleteFrom(files, failing, 1)

DeleteFrom(files, failing, i) ==
    IF i > Len(files) THEN [attempted |-> <<>>, deleted |-> <<>>]
    ELSE LET rest == DeleteFrom(files, failing, i + 1)
         IN [attempted |-> <<files[i].name>> \o rest.attempted,
             deleted |-> IF files[i].name \in failing
                            THEN rest.deleted
                            ELSE <<files[i].name>> \o rest.deleted]

Range(s) == {s[i] : i \in DOMAIN s}

CallRecord(op, force, listing, failing, cands, done, plan) ==
    [op |-> op, force |-> force, before |-> dstDir, listing |-> listing,
     failing |-> failing, files_to_delete |-> cands,
     attempted |-> done.attempted, deleted_files |-> done.deleted,
     needed |-> plan.needed, current_count |-> plan.current_count,
     to_delete |-> plan.to_delete, to_keep |-> plan.to_keep,
     freed_space |-> plan.freed_space]

NoPlan == CleanupPlan(<<>>, 0)
NothingDone == [attempted |-> <<>>, deleted |-> <<>>]

\* cleanup_old_backups(force): the whole call.
CleanupOldBackups(force) ==
    /\ cleanup.op = "none"
    /\ \E tars \in Orders(GlobTar(dstDir)),
          gzs \in Orders(GlobTarGz(dstDir)) :
         LET backup_files == GetBackupFiles(dstDir, tars, gzs)
             sorted == SortByMtime(backup_files)
             to_delete_count == ToDeleteCount(Len(backup_files), max_backups)
             files_to_delete == SliceTo(sorted, to_delete_count)
         IN IF backup_files = <<>> \/ SkipCleanup(force, Len(backup_files), max_backups)
               THEN /\ cleanup' = CallRecord("apply", force, backup_files, {},
                                             <<>>, NothingDone, NoPlan)
                    /\ UNCHANGED dstDir
               ELSE \E failing \in SUBSET Range(FileNames(files_to_delete)) :
                      LET done == DeleteLoop(files_to_delete, failing)
                      IN /\ cleanup' = CallRecord("apply", force, backup_files,
                                            failing, FileNames(files_to_delete),
                                            done, NoPlan)
                         /\ dstDir' = [n \in Names |->
                                          IF n \in Range(done.deleted) THEN NoFile
                                                                       ELSE dstDir[n]]
    /\ UNCHANGED <<srcDir, config, max_backups>>

\* get_cleanup_plan(): the whole call.
GetCleanupPlan ==
    /\ cleanup.op = "none"
    /\ \E tars \in Orders(GlobTar(dstDir)),
          gzs \in Orders(GlobTarGz(dstDir)) :
         LET backup_files == GetBackupFiles(dstDir, tars, gzs)
         IN cleanup' = CallRecord("plan", FALSE, backup_files, {}, <<>>, NothingDone,
                                  CleanupPlan(backup_files, max_backups))
    /\ UNCHANGED <<fsVars, max_backups>>

----------------------------------------------------------------------------
(* SpecCleanup: one call of the CleanupManager on a destination directory *)

Caps == (0 - NegCaps)..MaxCap

\* A backup at the destination, one GiB large, last modified at m.
Backup(m) == RegularFile(1, 0, m)

\* The destination directories: a file that is no backup, and any of the other
\* names, each with any modification time.
DestDirs ==
    {d \in [Names -> {NoFile} \cup {Backup(m) : m \in 1..MaxMtime}] :
        d[<<"notes", "txt">>] = Backup(1)}

InitCleanup ==
    /\ srcDir = EmptyDir
    /\ dstDir \in DestDirs
    /\ config = ConfigDefault
    /\ max_backups \in Caps
    /\ cleanup = NoCall
    /\ TransferIdle /\ WatcherIdle /\ OrchestratorIdle /\ StableIdle
    /\ FurtherIdle

NextCleanup ==
    /\ \/ \E force \in BOOLEAN : CleanupOldBackups(force)
       \/ GetCleanupPlan
    /\ UNCHANGED <<transferVars, watcherVars, orchestratorVars, stableVars,
                   furtherVars>>

SpecCleanup == InitCleanup /\ [][NextCleanup]_vars

----------------------------------------------------------------------------
(* Claims about the CleanupManager *)

\* The backups of a directory: what _get_backup_files lists.
Artifacts(dir) == {n \in Names : Exists(dir[n]) /\ (MatchesTar(n) \/ MatchesTarGz(n))}

OldestFirst(names, dir) ==
    \A i, j \in 1..Len(names) : i < j => dir[names[i]].mtime <= dir[names[j]].mtime

NoRepeats(names) == Cardinality(Range(names)) = Len(names)

\* No file of D is newer than a file of K.
NotNewer(D, K, dir) == \A d \in D, k \in K : dir[d].mtime <= dir[k].mtime

CountBefore == Cardinality(Artifacts(cleanup.before))

PlanIsPartition ==
    LET D == Range(cleanup.to_delete)
        K == Range(cleanup.to_keep)
        A == Artifacts(dstDir)
        N == Cardinality(A)
    IN /\ D \cap K = {} /\ D \cup K = A
       /\ NoRepeats(cleanup.to_delete) /\ NoRepeats(cleanup.to_keep)
       /\ Len(cleanup.to_keep) = Min(N, max_backups)
       /\ Len(cleanup.to_delete) = Max(0, N - max_backups)
       /\ OldestFirst(cleanup.to_delete, dstDir)
       /\ NotNewer(D, K, dstDir)
       /\ dstDir = cleanup.before

\* C6 as stated: for every destination set of N artifacts and every cap M,
\* get_cleanup_plan returns disjoint to_delete and to_keep that cover the set, with
\* |to_keep| = min(N, M), |to_delete| = max(0, N - M), to_delete being the N - M
\* oldest artifacts, oldest first.
C6_PlanEveryCap == cleanup.op = "plan" => PlanIsPartition

\* C6, amended: the same for every cap M >= 0. (With M < 0 the plan deletes all N
\* artifacts and keeps none.)
C6_PlanNonNegativeCap ==
    (cleanup.op = "plan" /\ max_backups >= 0) => PlanIsPartition

\* A plan for four artifacts, two of them equally old, under a cap of 2.
C6_Witness ==
    /\ cleanup.op = "plan" /\ max_backups = 2
    /\ Len(cleanup.to_delete) = 2 /\ Len(cleanup.to_keep) = 2
    /\ dstDir[cleanup.to_delete[2]].mtime = dstDir[cleanup.to_keep[1]].mtime

\* C7: with N > M >= 1 artifacts and no deletion failure, cleanup_old_backups()
\* deletes the N - M oldest artifacts, oldest first, returns their names and
\* leaves the M newest (and every other file).
C7_ApplyDeletesOldest ==
    (/\ cleanup.op = "apply" /\ ~cleanup.force
     /\ CountBefore > max_backups /\ max_backups >= 1
     /\ cleanup.failing = {})
    => LET D == Range(cleanup.deleted_files)
           A == Artifacts(cleanup.before)
       IN /\ Len(cleanup.deleted_files) = CountBefore - max_backups
          /\ NoRepeats(cleanup.deleted_files)
          /\ cleanup.attempted = cleanup.deleted_files
          /\ OldestFirst(cleanup.deleted_files, cleanup.before)
          /\ D \subseteq A
          /\ NotNewer(D, A \ D, cleanup.before)
          /\ Artifacts(dstDir) = A \ D
          /\ Cardinality(Artifacts(dstDir)) = max_backups
          /\ \A n \in Names \ D : dstDir[n] = cleanup.before[n]

\* Four artifacts, cap 2: two are deleted.
C7_Witness ==
    /\ cleanup.op = "apply" /\ ~cleanup.force /\ cleanup.failing = {}
    /\ CountBefore = 4 /\ max_backups = 2
    /\ Len(cleanup.deleted_files) = 2

\* C8: with N <= M artifacts, cleanup_old_backups() without force deletes nothing,
\* returns an empty list and leaves the destination as it was.
C8_UnderLimitNoOp ==
    (cleanup.op = "apply" /\ ~cleanup.force /\ CountBefore <= max_backups)
    => /\ cleanup.deleted_files = <<>>
       /\ cleanup.attempted = <<>>
       /\ dstDir = cleanup.before

\* N = M = 2 ...
C8_Witness ==
    /\ cleanup.op = "apply" /\ ~cleanup.force
    /\ CountBefore = 2 /\ max_backups = 2

\* ... and N = 0.
C8_WitnessEmpty ==
    cleanup.op = "apply" /\ ~cleanup.force /\ CountBefore = 0 /\ max_backups >= 0

\* C9: cleanup_old_backups(force=True) without deletion failure deletes the files
\* get_cleanup_plan lists in to_delete for the same directory (none when the
\* count is within the cap), and no other file.
C9_ForcedApplyDeletesPlan ==
    (cleanup.op = "apply" /\ cleanup.force /\ cleanup.failing = {})
    => LET plan == CleanupPlan(cleanup.listing, max_backups)
       IN /\ cleanup.deleted_files = plan.to_delete
          /\ Artifacts(dstDir) = Artifacts(cleanup.before) \ Range(plan.to_delete)

\* C10: when the deletion of a candidate fails, the other candidates are still
\* attempted and deleted, and the list returned names the files that were deleted.
C10_FailureIsIsolated ==
    cleanup.op = "apply"
    => LET deletable(n) == n \notin cleanup.failing
       IN /\ cleanup.attempted = cleanup.files_to_delete
          /\ cleanup.deleted_files = SelectSeq(cleanup.files_to_delete, deletable)
          /\ \A n \in Names :
                dstDir[n] = IF n \in Range(cleanup.files_to_delete) /\ deletable(n)
                               THEN NoFile ELSE cleanup.before[n]
          /\ CountBefore > max_backups =>
                cleanup.files_to_delete =
                    CleanupPlan(cleanup.listing, max_backups).to_delete

\* Three candidates; the first cannot be deleted, the other two are.
C10_Witness ==
    /\ cleanup.op = "apply"
    /\ Len(cleanup.files_to_delete) = 3
    /\ cleanup.failing = {cleanup.files_to_delete[1]}
    /\ cleanup.deleted_files = SubSeq(cleanup.files_to_delete, 2, 3)
    /\ Exists(dstDir[cleanup.files_to_delete[1]])

\* C11: cleanup_old_backups() without force on a manager whose cap is zero or
\* negative deletes no artifact; only a forced call may empty the destination.
C11_NonForcedKeepsFloor ==
    (cleanup.op = "apply" /\ ~cleanup.force /\ max_backups <= 0)
    => /\ cleanup.deleted_files = <<>>
       /\ Artifacts(dstDir) = Artifacts(cleanup.before)


----------------------------------------------------------------------------
(* BackupWatcher (backup_sync/backup/backup_watcher.py) *)

debounce_seconds == 2
max_recent_size == 100
\* _cleanup_recent_cache: entries older than an hour are dropped.
CacheHorizon == 3600

\* The number of events delivered so far: the id of the latest one.
Delivered == Cardinality({i \in 1..Len(eventLog) :
                             eventLog[i].ev \in {"check", "discard"}})

LogEntry(ev, id, name, dup) ==
    [ev |-> ev, id |-> id, name |-> name, t |-> now, dup |-> dup]

\* Mutant of IsDuplicateEvent: any recorded event of the name counts, however old.
IsDuplicateEvent_NoWindow(name) == recently_processed[name] # None

\* _is_duplicate_event, under processing_lock.
IsDuplicateEvent(name) ==
    /\ recently_processed[name] # None
    /\ now - recently_processed[name] < debounce_seconds

\* _cleanup_recent_cache: drop the entries older than the horizon.
CleanupRecentCache(recent) ==
    [n \in DOMAIN recent |-> IF recent[n] # None /\ recent[n] < now - CacheHorizon
                                THEN None ELSE recent[n]]

\* len(self.recently_processed)
RecentSize(recent) == Cardinality({n \in DOMAIN recent : recent[n] # None})

\* on_created, lines 57-71, and on_moved, lines 87-97: the filter and the
\* debounce check of an event for `name`, taken up by the idle thread h.
\* on_moved does not look at is_directory.
OnEvent(h, kind, name, is_directory) ==
    /\ handler[h].at = "idle"
    /\ Delivered < MaxEvents
    /\ LET id == Delivered + 1
       IN IF (kind = "created" /\ is_directory) \/ Suffix(name) # "tar"
             THEN /\ eventLog' = Append(eventLog, LogEntry("discard", id, name, FALSE))
                  /\ UNCHANGED handler
             ELSE IF IsDuplicateEvent(name)
             THEN /\ eventLog' = Append(eventLog, LogEntry("check", id, name, TRUE))
                  /\ UNCHANGED handler
             ELSE /\ eventLog' = Append(eventLog, LogEntry("check", id, name, FALSE))
                  /\ handler' = [handler EXCEPT ![h] =
                                    [at |-> "record", id |-> id, name |-> name]]
    /\ UNCHANGED <<now, recently_processed>>

\* _record_event, under processing_lock.
RecordEvent(h) ==
    /\ handler[h].at = "record"
    /\ LET recent == [recently_processed EXCEPT ![handler[h].name] = now]
       IN recently_processed' =
             IF RecentSize(recent) > max_recent_size
                THEN CleanupRecentCache(recent) ELSE recent
    /\ eventLog' = Append(eventLog,
                       LogEntry("record", handler[h].id, handler[h].name, FALSE))
    /\ handler' = [handler EXCEPT ![h].at = "process"]
    /\ UNCHANGED now

\* on_created, line 77, and on_moved, line 103: the event is handed to
\* _process_backup_file.
ProcessBackupFile(h) ==
    /\ handler[h].at = "process"
    /\ eventLog' = Append(eventLog,
                       LogEntry("forward", handler[h].id, handler[h].name, FALSE))
    /\ handler' = [handler EXCEPT ![h] = IdleHandler]
    /\ UNCHANGED <<now, recently_processed>>

\* The clock advances by a second.
Tick ==
    /\ now < MaxTime
    /\ now' = now + 1
    /\ UNCHANGED <<recently_processed, handler, eventLog>>

----------------------------------------------------------------------------
(* SpecWatcher: events delivered to the BackupWatcher by the observer's threads *)

\* The names events carry: two artifacts and another file.
WatchNames == { <<"a", "tar">>, <<"b", "tar">>, <<"notes", "txt">> }

InitWatcher ==
    /\ srcDir = EmptyDir /\ dstDir = EmptyDir /\ config = ConfigDefault
    /\ WatcherIdle /\ TransferIdle /\ CleanupIdle /\ OrchestratorIdle /\ StableIdle
    /\ FurtherIdle

NextWatcher ==
    /\ \/ \E h \in Handlers, kind \in {"created", "moved"}, name \in WatchNames,
             is_directory \in BOOLEAN : OnEvent(h, kind, name, is_directory)
       \/ \E h \in Handlers : RecordEvent(h)
       \/ \E h \in Handlers : ProcessBackupFile(h)
       \/ Tick
    /\ UNCHANGED <<fsVars, transferVars, cleanupVars, orchestratorVars, stableVars,
                   furtherVars>>

SpecWatcher == InitWatcher /\ [][NextWatcher]_vars

----------------------------------------------------------------------------
(* SpecCache: the BackupWatcher after it has recorded many other file names *)

\* The names 1.tar, 2.tar, ... of backups detected earlier.
EarlierNames(k) == {<<ToString(i), "tar">> : i \in 1..k}

\* The cache after events for k earlier names, all recorded at time t.
RecordedEarlier(k, t) ==
    [n \in Names \cup EarlierNames(k) |-> IF n \in Names THEN None ELSE t]

\* The earlier names fill the cache, or all but one entry; they were recorded just
\* now, or more than an hour ago.
InitCache ==
    /\ srcDir = EmptyDir /\ dstDir = EmptyDir /\ config = ConfigDefault
    /\ now = 0
    /\ \E k \in {max_recent_size - 1, max_recent_size},
          t \in {0, 0 - (CacheHorizon + 1)} :
         recently_processed = RecordedEarlier(k, t)
    /\ handler = [h \in Handlers |-> IdleHandler]
    /\ eventLog = <<>>
    /\ TransferIdle /\ CleanupIdle /\ OrchestratorIdle /\ StableIdle
    /\ FurtherIdle

SpecCache == InitCache /\ [][NextWatcher]_vars

----------------------------------------------------------------------------
(* Claims about the BackupWatcher *)

Forwards(id) == Cardinality({k \in 1..Len(eventLog) :
                                eventLog[k].ev = "forward" /\ eventLog[k].id = id})

InProgress(id) == \E h \in Handlers : handler[h].at # "idle" /\ handler[h].id = id

\* The event was handed to _process_backup_file once, or its handler is about to.
ForwardedOnce(id) == IF InProgress(id) THEN Forwards(id) = 0 ELSE Forwards(id) = 1

\* The events of `name` recorded before position j of the log.
RecordsBefore(j, name) ==
    {i \in 1..(j - 1) : eventLog[i].ev = "record" /\ eventLog[i].name = name}

\* C5: of two detection events with the same qualifying file name, the second is
\* dropped - one signal is forwarded - when it arrives less than the debounce
\* window (2 s) after the first was recorded; both are forwarded when it arrives
\* later than the window.
C5_Debounce ==
    \A j \in 1..Len(eventLog) :
        eventLog[j].ev = "check" =>
            LET e == eventLog[j]
                earlier == RecordsBefore(j, e.name)
            IN /\ (\E i \in earlier : e.t - eventLog[i].t < debounce_seconds)
                     => (e.dup /\ Forwards(e.id) = 0 /\ ~InProgress(e.id))
               /\ (\A i \in earlier : e.t - eventLog[i].t > debounce_seconds)
                     => (~e.dup /\ ForwardedOnce(e.id))
               /\ \A i \in earlier : ForwardedOnce(eventLog[i].id)

\* A second event one second after the first was recorded: dropped.
C5_Witness ==
    \E i, j \in 1..Len(eventLog) :
        /\ i < j /\ eventLog[i].ev = "record" /\ eventLog[j].ev = "check"
        /\ eventLog[i].name = eventLog[j].name
        /\ eventLog[j].t - eventLog[i].t = 1
        /\ eventLog[j].dup
        /\ Forwards(eventLog[i].id) = 1 /\ Forwards(eventLog[j].id) = 0

\* A second event three seconds after the first was recorded: both forwarded.
C5_WitnessBoth ==
    \E i, j \in 1..Len(eventLog) :
        /\ i < j /\ eventLog[i].ev = "record" /\ eventLog[j].ev = "check"
        /\ eventLog[i].name = eventLog[j].name
        /\ eventLog[j].t - eventLog[i].t = 3
        /\ Forwards(eventLog[i].id) = 1 /\ Forwards(eventLog[j].id) = 1

\* C20: when an event has been handled, the cache of recently processed names
\* holds at most max_recent_size (100) entries.
C20_CacheBounded == RecentSize(recently_processed) <= max_recent_size

----------------------------------------------------------------------------
(* BackupOrchestrator (backup/backup_orchestrator.py) *)

counterVars == <<backups_processed, backups_failed, last_backup_time>>

OrchEntry(ev, op, run, name, ok, copied, synced) ==
    [ev |-> ev, op |-> op, run |-> run, name |-> name, ok |-> ok,
     copied |-> copied, synced |-> synced]

\* What a call of the notifier may do: deliver, or raise.
NotifierOutcomes == {"sent", "raises"}

\* The orchestrator calls backup_processor.process_backup(name): a fresh call.
BeginProcessBackup(name) ==
    /\ pc' = "start" /\ backup_path' = name /\ phase' = "pre" /\ size1' = 0
    /\ source_checksum' = None /\ attempt' = 0 /\ last_error' = ""
    /\ copy_result' = NoCopyResult /\ result' = NoResult
    /\ attemptLog' = <<>> /\ sleepLog' = <<>> /\ notifications' = <<>>
    /\ srcSeen' = NoFile /\ dst0' = dstDir /\ writes' = 0

\* process_backup has returned a result or raised.
ProcessBackupEnded == pc \in {"done", "raised"}

\* The orchestrator has taken the result: the call and its locals are gone.
EndProcessBackup ==
    /\ pc' = "idle" /\ backup_path' = <<>> /\ phase' = "pre" /\ size1' = 0
    /\ source_checksum' = None /\ attempt' = 0 /\ last_error' = ""
    /\ copy_result' = NoCopyResult /\ result' = NoResult
    /\ attemptLog' = <<>> /\ sleepLog' = <<>> /\ notifications' = <<>>
    /\ srcSeen' = NoFile /\ dst0' = EmptyDir /\ writes' = 0

\* Mutant of LastBackupTime: the time is set whatever the result.
LastBackupTime_Always(ok, t, old) == t

\* Lines 202 and 256: last_backup_time = datetime.now(), on success only.
LastBackupTime(ok, t, old) == IF ok THEN t ELSE old

\* Lines 199-207, 209-212, 253-265, 270-271: the counters, under self.lock. The
\* clock has advanced since the last reading.
RecordTerminal(ok) ==
    /\ backups_processed' = IF ok THEN backups_processed + 1 ELSE backups_processed
    /\ backups_failed' = IF ok THEN backups_failed ELSE backups_failed + 1
    /\ now' = now + 1
    /\ last_backup_time' = LastBackupTime(ok, now', last_backup_time)
    /\ UNCHANGED <<recently_processed, handler, eventLog>>

ReturnedCall == [NoOrchestratorCall EXCEPT !.run = call.run]

\* sync_existing_backups, lines 172-184: list the *.tar files of the source.
SyncExistingBackups ==
    /\ call.op = "none"
    /\ \E source_backups \in Orders(GlobTar(srcDir)) :
         IF source_backups = <<>>
            THEN /\ call' = [NoOrchestratorCall EXCEPT !.run = call.run + 1]
                 /\ orchLog' = Append(orchLog, OrchEntry("return", "sync", call.run + 1,
                                                         <<>>, TRUE, FALSE, <<>>))
            ELSE /\ call' = [op |-> "sync", at |-> "loop", run |-> call.run + 1,
                             name |-> <<>>, source_backups |-> source_backups,
                             i |-> 1, synced_backups |-> <<>>, raised |-> FALSE]
                 /\ orchLog' = Append(orchLog, OrchEntry("start", "sync", call.run + 1,
                                                         <<>>, TRUE, FALSE, <<>>))
    /\ cleanup' = NoCall
    /\ UNCHANGED <<fsVars, max_backups, transferVars, watcherVars, counterVars, lock>>

\* Mutant of AlreadyAtDestination: the destination is not looked at.
AlreadyAtDestination_NotChecked(name) == FALSE

\* sync_existing_backups, lines 190-191: dest_file.exists().
AlreadyAtDestination(name) == Exists(dstDir[name])

\* sync_existing_backups, lines 187-197: the next file of the list is skipped when
\* the destination has its name, and handed to process_backup otherwise.
SyncLoop ==
    /\ call.op = "sync" /\ call.at = "loop"
    /\ IF call.i > Len(call.source_backups)
          THEN /\ call' = [call EXCEPT !.at = "cleanup"]
               /\ UNCHANGED <<transferVars, orchLog>>
          ELSE LET backup_file == call.source_backups[call.i]
               IN IF AlreadyAtDestination(backup_file)
                     THEN /\ call' = [call EXCEPT !.i = @ + 1]
                          /\ orchLog' = Append(orchLog,
                                 OrchEntry("skip", "sync", call.run, backup_file,
                                           FALSE, FALSE, <<>>))
                          /\ UNCHANGED transferVars
                     ELSE /\ BeginProcessBackup(backup_file)
                          /\ call' = [call EXCEPT !.at = "transfer",
                                                  !.name = backup_file]
                          /\ UNCHANGED orchLog
    /\ UNCHANGED <<fsVars, cleanupVars, watcherVars, counterVars, lock>>

\* sync_existing_backups, lines 199-212: count the result (an exception of
\* process_backup counts as a failure), go on with the next file.
SyncRecord ==
    /\ call.op = "sync" /\ call.at = "transfer"
    /\ ProcessBackupEnded
    /\ LET ok == pc = "done" /\ result.success
       IN /\ RecordTerminal(ok)
          /\ call' = [call EXCEPT !.at = "loop", !.i = @ + 1,
                         !.synced_backups = IF ok THEN Append(@, call.name) ELSE @]
          /\ orchLog' = Append(orchLog,
                 OrchEntry("transfer", "sync", call.run, call.name, ok,
                           attemptLog # <<>>, <<>>))
    /\ EndProcessBackup
    /\ UNCHANGED <<fsVars, cleanupVars, lock>>

\* Mutant of RetentionDue: the cleanup runs after every sync.
RetentionDue_Always(synced_backups) == TRUE

\* sync_existing_backups, line 215.
RetentionDue(synced_backups) == synced_backups # <<>>

\* Mutant of CleanupRaises: a file that cannot be deleted ends the call with the
\* exception.
CleanupRaises_OnFailure(failing) == failing # {}

\* cleanup_old_backups, lines 56, 92-95 and 109-111: the exception of an unlink is
\* caught inside the loop, any other inside the method, which returns []: the
\* caller never sees an exception.
CleanupRaises(failing) == FALSE

\* sync_existing_backups, lines 214-216: the cleanup after the loop.
SyncCleanup ==
    /\ call.op = "sync" /\ call.at = "cleanup"
    /\ IF RetentionDue(call.synced_backups)
          THEN /\ CleanupOldBackups(FALSE)
               /\ orchLog' = Append(orchLog,
                      OrchEntry("retention", "sync", call.run, <<>>,
                                ~CleanupRaises(cleanup'.failing), FALSE, <<>>))
               /\ call' = [call EXCEPT !.at = "notify",
                                       !.raised = CleanupRaises(cleanup'.failing)]
          ELSE /\ UNCHANGED <<fsVars, cleanupVars, orchLog>>
               /\ call' = [call EXCEPT !.at = "notify"]
    /\ UNCHANGED <<transferVars, watcherVars, counterVars, lock>>

\* sync_existing_backups, lines 218-236: the summary notification and the return.
\* When the cleanup or send_info raised, the handler of line 230 calls send_error
\* and returns [];
\* when that raises too, the call ends with the exception.
SyncReturn ==
    /\ call.op = "sync" /\ call.at = "notify"
    /\ \E info \in NotifierOutcomes, error \in NotifierOutcomes :
         LET raised == call.raised \/ (call.synced_backups # <<>> /\ info = "raises")
             returned == IF raised THEN <<>> ELSE call.synced_backups
         IN orchLog' = Append(orchLog,
                OrchEntry("return", "sync", call.run, <<>>,
                          ~(raised /\ error = "raises"), FALSE, returned))
    /\ call' = ReturnedCall
    /\ cleanup' = NoCall
    /\ UNCHANGED <<fsVars, max_backups, transferVars, watcherVars, counterVars, lock>>

\* process_single_backup, lines 248-251.
ProcessSingleBackup(name) ==
    /\ call.op = "none"
    /\ BeginProcessBackup(name)
    /\ call' = [op |-> "single", at |-> "transfer", run |-> call.run + 1,
                name |-> name, source_backups |-> <<>>, i |-> 0,
                synced_backups |-> <<>>, raised |-> FALSE]
    /\ orchLog' = Append(orchLog, OrchEntry("start", "single", call.run + 1, name,
                                            TRUE, FALSE, <<>>))
    /\ cleanup' = NoCall
    /\ UNCHANGED <<fsVars, max_backups, watcherVars, counterVars, lock>>

\* process_single_backup, lines 253-257 and 263-272: take self.lock and count the
\* result. After a success the lock is kept for the cleanup; a failure returns.
SingleRecord ==
    /\ call.op = "single" /\ call.at = "transfer"
    /\ ProcessBackupEnded
    /\ lock = "free"
    /\ LET ok == pc = "done" /\ result.success
       IN /\ RecordTerminal(ok)
          /\ lock' = IF ok THEN "single" ELSE "free"
          /\ call' = IF ok THEN [call EXCEPT !.at = "cleanup"] ELSE ReturnedCall
          /\ orchLog' = Append(orchLog,
                 OrchEntry("transfer", "single", call.run, call.name, ok,
                           attemptLog # <<>>, <<>>))
    /\ EndProcessBackup
    /\ UNCHANGED <<fsVars, cleanupVars>>

\* process_single_backup, lines 258-262: the cleanup, inside `with self.lock`, and
\* `return True` (the entry's ok); lines 268-272: an exception of the cleanup
\* would be counted in backups_failed, with `return False`.
SingleCleanup ==
    /\ call.op = "single" /\ call.at = "cleanup"
    /\ CleanupOldBackups(FALSE)
    /\ LET raises == CleanupRaises(cleanup'.failing)
       IN /\ backups_failed' = IF raises THEN backups_failed + 1 ELSE backups_failed
          /\ orchLog' = Append(orchLog,
                 OrchEntry("retention", "single", call.run, <<>>, ~raises, FALSE, <<>>))
    /\ lock' = "free"
    /\ call' = ReturnedCall
    /\ UNCHANGED <<transferVars, watcherVars, backups_processed, last_backup_time>>

----------------------------------------------------------------------------
(* SpecOrchestrator: sync_existing_backups called twice in a row, or one call of *)
(* process_single_backup                                                       *)

SyncNames == { <<"a", "tar">>, <<"b", "tar">> }

\* The source: nothing; a.tar; an empty a.tar and b.tar; a.tar and a newer b.tar.
SyncSources ==
    {[EmptyDir EXCEPT ![<<"a", "tar">>] = f[1], ![<<"b", "tar">>] = f[2]] :
        f \in {<<NoFile, NoFile>>,
               <<RegularFile(2, 0, 1), NoFile>>,
               <<RegularFile(0, 0, 1), RegularFile(2, 1, 2)>>,
               <<RegularFile(2, 0, 1), RegularFile(2, 1, 2)>>}}

\* The destination: empty; a.tar copied before; another, newer backup c.tar.
SyncDests ==
    {EmptyDir,
     [EmptyDir EXCEPT ![<<"a", "tar">>] = RegularFile(2, 0, 1)],
     [EmptyDir EXCEPT ![<<"c", "tar">>] = Backup(MaxMtime)]}

\* A wait before the copy, and two attempts.
SyncConfigs == {[wait_time |-> 1, max_retries |-> 2, retry_delay |-> 1]}

\* config.max_copies, validated: at least 1.
SyncCaps == {1, MaxCap}

InitOrchestrator ==
    /\ srcDir \in SyncSources
    /\ dstDir \in SyncDests
    /\ config \in SyncConfigs
    /\ max_backups \in SyncCaps
    /\ cleanup = NoCall
    /\ TransferIdle /\ WatcherIdle /\ OrchestratorIdle /\ StableIdle
    /\ FurtherIdle

\* Environment: the source is deleted while process_backup reads it to compute
\* the checksum or to build the result: the cases in which process_backup raises.
SourceVanishes == pc \in {"checksum", "result"} /\ RemoveSource

\* The first call made on the orchestrator, or the call of sync_existing_backups
\* that follows the first one.
FirstCall == call.run = 0
SecondSync == call.run = 1 /\ orchLog[1].op = "sync"

NextOrchestrator ==
    /\ \/ /\ \/ (FirstCall \/ SecondSync) /\ SyncExistingBackups
             \/ SyncLoop \/ SyncRecord \/ SyncCleanup \/ SyncReturn
             \/ FirstCall /\ \E name \in SyncNames : ProcessSingleBackup(name)
             \/ SingleRecord \/ SingleCleanup
          /\ UNCHANGED monitorVars
       \/ /\ \/ ProcessBackup \/ Validate \/ Settle \/ Wait \/ Checksum
             \/ Copy \/ Verify \/ Retry \/ Exhausted \/ Result
             \/ SourceVanishes
          /\ UNCHANGED <<cleanupVars, watcherVars, orchestratorVars>>
    /\ UNCHANGED <<stableVars, furtherVars>>

SpecOrchestrator == InitOrchestrator /\ [][NextOrchestrator]_vars

----------------------------------------------------------------------------
(* Claims about the BackupOrchestrator *)

\* What call number r of the orchestrator did, in order.
RunLog(r) == SelectSeq(orchLog, LAMBDA e : e.run = r)

Returned(r) == \E i \in 1..Len(orchLog) : orchLog[i].run = r /\ orchLog[i].ev = "return"

\* C12: when sync_existing_backups is called twice in a row, the second call
\* returns an empty list and copies no file.
C12_SecondSyncIsEmpty ==
    (orchLog # <<>> /\ orchLog[1].op = "sync" /\ Returned(2)) =>
        LET second == RunLog(2)
        IN /\ second[Len(second)].synced = <<>>
           /\ \A i \in 1..Len(second) : ~second[i].copied

\* The positions of RunLog(r) at which an entry of kind ev stands.
Positions(r, ev) == {i \in 1..Len(RunLog(r)) : RunLog(r)[i].ev = ev}

Attempts(r) == Positions(r, "skip") \cup Positions(r, "transfer")

SyncRuns == {orchLog[i].run : i \in {j \in 1..Len(orchLog) : orchLog[j].op = "sync"}}

\* C13: in one run of sync_existing_backups the retention is executed at most
\* once, only after every source artifact was attempted (transferred, failed or
\* skipped), and exactly when at least one artifact was transferred.
C13_RetentionOncePerSync ==
    \A r \in SyncRuns :
        /\ Cardinality(Positions(r, "retention")) <= 1
        /\ \A k \in Positions(r, "retention") :
              /\ \A i \in Attempts(r) : i < k
              /\ \E i \in Positions(r, "transfer") : RunLog(r)[i].ok
        /\ (call.run = r /\ call.at = "notify") =>
              /\ Cardinality(Attempts(r)) = Len(call.source_backups)
              /\ {RunLog(r)[i].name : i \in Attempts(r)}
                    = {call.source_backups[i] : i \in 1..Len(call.source_backups)}
        /\ ((call.run = r /\ call.at = "notify") \/ Returned(r)) =>
              (Positions(r, "retention") # {}
                  <=> \E i \in Positions(r, "transfer") : RunLog(r)[i].ok)

\* A run that skipped one artifact, transferred another and then ran the
\* retention has returned.
C13_Witness ==
    \E r \in SyncRuns :
        /\ Returned(r)
        /\ Positions(r, "skip") # {}
        /\ Positions(r, "retention") # {}

\* A run whose only transfers failed has returned without a retention.
C13_WitnessNone ==
    \E r \in SyncRuns :
        /\ Returned(r)
        /\ Positions(r, "transfer") # {}
        /\ Positions(r, "retention") = {}

\* C16: last_backup_time changes only in a step in which a transfer has just
\* succeeded and backups_processed is incremented.
C16_LastBackupTimeOnSuccess ==
    [][last_backup_time' # last_backup_time =>
          /\ pc = "done" /\ result.success
          /\ backups_processed' = backups_processed + 1
          /\ backups_failed' = backups_failed]_vars

\* A transfer succeeded after an earlier one failed: both counters are set and
\* last_backup_time is the time of the success.
C16_Witness ==
    /\ last_backup_time # None
    /\ backups_processed > 0
    /\ backups_failed > 0

\* C19: the lock of the orchestrator is not held during a filesystem operation:
\* no step taken while it is held changes the source or the destination.
C19_NoFileOperationUnderLock ==
    [][lock # "free" => UNCHANGED <<srcDir, dstDir>>]_vars

----------------------------------------------------------------------------
(* Continuous monitoring: BackupOrchestrator.start_monitoring / stop_monitoring, *)
(* and the threads the BackupWatcher starts for the events it forwards          *)

\* BackupWatcher.__init__, lines 37-42: the callback lists are empty, and nothing
\* calls register_callback: _trigger_callbacks calls no function.
Callbacks(event_type) == <<>>

\* _validate_file, lines 198-218: the file exists, is a regular file, is not empty.
ValidateFile(f) == Exists(f) /\ IsFile(f) /\ f.size # 0

\* The process has not exited.
Alive == monitor.at # "exited"

\* start_monitoring, lines 94-121 and 129-134: the observer is started, the flags
\* are set and the start notification is sent; when it raises, `finally` stops
\* the monitoring at once.
StartMonitoring ==
    /\ monitor.at = "idle" /\ ~monitor.is_monitoring
    /\ \E info \in NotifierOutcomes :
         /\ monitor' = [is_monitoring |-> TRUE, is_running |-> TRUE,
                        at |-> IF info = "sent" THEN "loop" ELSE "stopping"]
         /\ orchLog' = Append(orchLog, OrchEntry("start", "monitor", 0, <<>>,
                                                 info = "sent", FALSE, <<>>))
    /\ UNCHANGED <<fsVars, transferVars, cleanupVars, watcherVars, counterVars, lock,
                   call, threads>>

\* start_monitoring, lines 124-128 and 135-136: the loop of the main thread is left
\* by a KeyboardInterrupt, and `finally` calls stop_monitoring.
Interrupted ==
    /\ monitor.at = "loop"
    /\ monitor' = [monitor EXCEPT !.at = "stopping"]
    /\ UNCHANGED <<fsVars, transferVars, cleanupVars, watcherVars, counterVars, lock,
                   call, orchLog, threads>>

\* stop_monitoring, lines 138-163: the flags are cleared, the observer is stopped
\* and joined, "Backup monitoring stopped" is logged and the stop notification is
\* sent (an exception is logged). The BackupProcessor threads are not joined.
StopMonitoring ==
    /\ monitor.at = "stopping" /\ monitor.is_monitoring
    /\ \E info \in NotifierOutcomes :
         orchLog' = Append(orchLog, OrchEntry("stopped", "monitor", 0, <<>>,
                                              info = "sent", FALSE, <<>>))
    /\ monitor' = [is_monitoring |-> FALSE, is_running |-> FALSE, at |-> "stopped"]
    /\ UNCHANGED <<fsVars, transferVars, cleanupVars, watcherVars, counterVars, lock,
                   call, threads>>

\* main, lines 118-134: start_monitoring has returned and the process exits. The
\* BackupProcessor threads are daemon threads: they end where they are.
MainExits ==
    /\ monitor.at = "stopped"
    /\ monitor' = [monitor EXCEPT !.at = "exited"]
    /\ UNCHANGED <<fsVars, transferVars, cleanupVars, watcherVars, counterVars, lock,
                   call, orchLog, threads>>

\* Mutant of ThreadStartReady: the handler runs process_backup itself, one file
\* after the other.
ThreadStartReady_Inline == pc = "idle"

\* _process_backup_file, lines 134-141: thread.start() returns at once, whatever
\* the threads started before are doing.
ThreadStartReady == TRUE

\* _process_backup_file, lines 105-141: the file is validated and a daemon thread
\* BackupProcessor-<name> is started for it.
StartThread(h) ==
    /\ ThreadStartReady
    /\ ProcessBackupFile(h)
    /\ threads' = IF ValidateFile(srcDir[handler[h].name])
                     THEN Append(threads, handler[h].name) ELSE threads
    /\ UNCHANGED <<fsVars, transferVars, cleanupVars, counterVars, lock, call,
                   orchLog, monitor>>

\* _process_in_thread, lines 150-161: a started thread calls
\* backup_processor.process_backup.
ThreadRun ==
    /\ threads # <<>> /\ pc = "idle"
    /\ BeginProcessBackup(Head(threads))
    /\ threads' = Tail(threads)
    /\ UNCHANGED <<fsVars, cleanupVars, watcherVars, counterVars, lock, call, orchLog,
                   monitor>>

\* _process_in_thread, lines 163-187: the result (or the exception) is handed to the
\* callbacks of 'backup_processing_completed' or 'backup_processing_failed', of
\* which there are none, and the thread ends.
ThreadEnd ==
    /\ call.op = "none"
    /\ ProcessBackupEnded
    /\ LET ok == pc = "done" /\ result.success
           event_type == IF ok THEN "backup_processing_completed"
                               ELSE "backup_processing_failed"
       IN /\ Callbacks(event_type) = <<>>
          /\ orchLog' = Append(orchLog,
                 OrchEntry("transfer", "monitor", 0, backup_path, ok,
                           attemptLog # <<>>, <<>>))
    /\ EndProcessBackup
    /\ UNCHANGED <<fsVars, cleanupVars, watcherVars, counterVars, lock, call, monitor,
                   threads>>

----------------------------------------------------------------------------
(* SpecMonitor: start_monitoring, events for two backups, and the stop *)

MonitorNames == { <<"a", "tar">>, <<"b", "tar">> }

\* The source holds a.tar and b.tar; b.tar may be empty.
MonitorSources ==
    {[EmptyDir EXCEPT ![<<"a", "tar">>] = RegularFile(2, 0, 1),
                      ![<<"b", "tar">>] = RegularFile(s, 1, 2)] : s \in {0, 2}}

InitMonitor ==
    /\ srcDir \in MonitorSources
    /\ dstDir \in {EmptyDir, [EmptyDir EXCEPT ![<<"c", "tar">>] = Backup(MaxMtime)]}
    /\ config \in SyncConfigs
    /\ max_backups = 1
    /\ cleanup = NoCall
    /\ TransferIdle /\ WatcherIdle /\ OrchestratorIdle /\ StableIdle
    /\ FurtherIdle

\* The observer dispatches the events of a watch one after the other, from one
\* thread (start_monitoring, lines 102-110: one Observer, one watch).
Dispatcher == {"t1"}

NextMonitor ==
    /\ \/ StartMonitoring \/ Interrupted \/ StopMonitoring \/ MainExits
       \/ /\ monitor.at = "loop"
          /\ \E h \in Dispatcher, kind \in {"created", "moved"}, name \in MonitorNames :
                OnEvent(h, kind, name, FALSE)
          /\ UNCHANGED <<fsVars, transferVars, cleanupVars, orchestratorVars>>
       \/ /\ Alive
          /\ \E h \in Dispatcher : RecordEvent(h)
          /\ UNCHANGED <<fsVars, transferVars, cleanupVars, orchestratorVars>>
       \/ Alive /\ \E h \in Dispatcher : StartThread(h)
       \/ Alive /\ ThreadRun
       \/ Alive /\ ThreadEnd
       \/ /\ Alive
          /\ \/ ProcessBackup \/ Validate \/ Settle \/ Wait \/ Checksum
             \/ Copy \/ Verify \/ Retry \/ Exhausted \/ Result
             \/ SourceVanishes
          /\ UNCHANGED <<cleanupVars, watcherVars, orchestratorVars>>
    /\ UNCHANGED <<stableVars, furtherVars>>

SpecMonitor == InitMonitor /\ [][NextMonitor]_vars

----------------------------------------------------------------------------
(* Claims about continuous monitoring *)

\* Nothing is running and nothing is left to run: no event is being handled, no
\* thread waits to run, no transfer is in progress.
Quiescent ==
    /\ pc = "idle" /\ threads = <<>>
    /\ \A h \in Handlers : handler[h].at = "idle"

MonitorTransfers ==
    {i \in 1..Len(orchLog) : orchLog[i].op = "monitor" /\ orchLog[i].ev = "transfer"}

RetentionsAfter(i) ==
    {j \in i + 1..Len(orchLog) : orchLog[j].ev = "retention"}

\* C14: in continuous monitoring a forwarded event whose transfer succeeds is
\* followed by exactly one retention pass, and a failed transfer by none: once
\* every thread has ended, each successful transfer has its retention pass.
C14_RetentionPerSuccess ==
    (Quiescent /\ MonitorTransfers # {}) =>
        LET last == CHOOSE i \in MonitorTransfers : \A j \in MonitorTransfers : j <= i
        IN Cardinality(RetentionsAfter(last)) = IF orchLog[last].ok THEN 1 ELSE 0

Terminal(ok) ==
    {i \in 1..Len(orchLog) : orchLog[i].ev = "transfer" /\ orchLog[i].ok = ok}

\* C15: each artifact that reaches a terminal state increments one counter by one:
\* backups_processed counts the successes, backups_failed the failures, and their
\* sum is the number of artifacts that reached a terminal state.
C15_CountersCountTerminals ==
    /\ backups_processed = Cardinality(Terminal(TRUE))
    /\ backups_failed = Cardinality(Terminal(FALSE))

\* C17: when the monitoring has reported that it stopped, no transfer is in
\* progress: those in flight at the stop have reached their terminal state.
C17_StopWaitsForTransfers ==
    monitor.at \in {"stopped", "exited"} => ~Running

----------------------------------------------------------------------------
(* SpecDetect: events for the entries of the watched directory, each handled up *)
(* to the start of its BackupProcessor thread                                   *)

DetectNames == { <<"a", "tar">>, <<"c", "tar">>, <<"notes", "txt">> }

\* The watched directory: the backup a.tar, a file notes.txt, and c.tar, which is
\* a backup or a directory.
DetectSources ==
    {[EmptyDir EXCEPT ![<<"a", "tar">>] = RegularFile(2, 0, 1),
                      ![<<"c", "tar">>] = f,
                      ![<<"notes", "txt">>] = RegularFile(2, 1, 1)] :
        f \in {Directory, RegularFile(2, 1, 2)}}

\* event.is_directory of an event for `name`.
IsDirectory(name) == srcDir[name].kind = "dir"

\* The observer has been started (start_monitoring, lines 102-111).
InitDetect ==
    /\ srcDir \in DetectSources
    /\ dstDir = EmptyDir /\ config = ConfigDefault
    /\ TransferIdle /\ CleanupIdle /\ WatcherIdle
    /\ backups_processed = 0 /\ backups_failed = 0 /\ last_backup_time = None
    /\ lock = "free" /\ call = NoOrchestratorCall /\ orchLog = <<>>
    /\ monitor = [is_monitoring |-> TRUE, is_running |-> TRUE, at |-> "loop"]
    /\ threads = <<>>
    /\ StableIdle /\ FurtherIdle

NextDetect ==
    /\ \/ /\ \/ \E h \in Handlers, kind \in {"created", "moved"}, name \in DetectNames :
                   OnEvent(h, kind, name, IsDirectory(name))
             \/ \E h \in Handlers : RecordEvent(h)
             \/ Tick
          /\ UNCHANGED <<fsVars, transferVars, cleanupVars, orchestratorVars>>
       \/ \E h \in Handlers : StartThread(h)
    /\ UNCHANGED <<stableVars, furtherVars>>

SpecDetect == InitDetect /\ [][NextDetect]_vars

----------------------------------------------------------------------------
(* Claims about the detection of arrivals *)

\* The names for which the watcher has done `ev`.
Logged(ev) == {eventLog[i].name : i \in {j \in 1..Len(eventLog) : eventLog[j].ev = ev}}

Started == {threads[i] : i \in 1..Len(threads)}

\* C21: an event whose path is a directory, or whose suffix is not .tar, is
\* discarded silently: its name is not written to recently_processed, it is not
\* handed to _process_backup_file, and no thread is started for it.
C21_DiscardedSilently ==
    \A n \in DetectNames :
        (IsDirectory(n) \/ Suffix(n) # "tar") =>
            /\ recently_processed[n] = None
            /\ n \notin Logged("record") \cup Logged("forward")
            /\ n \notin Started

----------------------------------------------------------------------------
(* Further claims about process_backup *)

Kinds(log) == [i \in 1..Len(log) |-> log[i].kind]

\* The sleeps of a call that has passed the wait and its re-validation: the settle
\* of the first validation, the wait, the settle of the re-validation, and from
\* then on only the backoffs between attempts.
SleepsOfWaitedCall ==
    /\ Len(sleepLog) >= 3
    /\ Kinds(sleepLog)[1] = "settle"
    /\ Kinds(sleepLog)[2] = "wait" /\ sleepLog[2].secs = config.wait_time
    /\ Kinds(sleepLog)[3] = "settle"
    /\ \A i \in 4..Len(sleepLog) : Kinds(sleepLog)[i] = "backoff"

SourceGoneOrEmpty == ~Exists(srcDir[backup_path]) \/ srcDir[backup_path].size = 0

WaitedBeforeAttempts ==
    config.wait_time > 0 =>
        /\ pc = "wait" => attemptLog = <<>> /\ attempt = 0
        /\ (pc \in {"checksum", "copy", "verify", "retry", "exhausted", "result"}
               \/ attemptLog # <<>>) => SleepsOfWaitedCall

\* C22: with wait_time > 0 process_backup sleeps wait_time once, before the first
\* copy attempt and never between attempts, and then validates the source again;
\* when the source is gone or empty at that validation, the call returns the
\* failure "Source changed during wait" without a copy attempt.
C22_WaitOnceThenRecheck ==
    [][/\ WaitedBeforeAttempts'
       /\ (config.wait_time > 0 /\ pc = "validate" /\ phase = "post"
              /\ SourceGoneOrEmpty /\ pc' # pc) =>
            /\ pc' = "done"
            /\ ~result'.success
            /\ result'.error = "Source changed during wait"
            /\ attemptLog' = <<>> /\ dstDir' = dst0]_vars

\* The source was valid before the wait and empty after it: the call has returned
\* "Source changed during wait".
C22_Witness ==
    /\ config.wait_time > 0
    /\ pc = "done" /\ result.error = "Source changed during wait"
    /\ result.detail = "File is empty"
    /\ attemptLog = <<>>

\* A call with a wait has made a second attempt after a backoff.
C22_WitnessRetry ==
    /\ config.wait_time > 0
    /\ Len(attemptLog) >= 2
    /\ SleepsOfWaitedCall

----------------------------------------------------------------------------
(* BackupWatcher.wait_for_file_stable (backup_sync/backup/backup_watcher.py) *)

\* wait_for_file_stable, line 360: the equal readings needed in a row.
required_stable_checks == 2

\* What file_path.stat() may give at one check: a size, or an exception because
\* the file is missing or cannot be read.
Observation(kind, size) == [kind |-> kind, size |-> size]
Observations ==
    {Observation("size", n) : n \in {0, 2}}
        \cup {Observation("missing", 0), Observation("error", 0)}

\* wait_for_file_stable, lines 342-360: the call and its locals.
WaitForFileStable(max_checks) ==
    /\ stable.at = "idle"
    /\ stable' = [at |-> "loop", max_checks |-> max_checks, check |-> 0,
                  last_size |-> None, stable_checks |-> 0, samples |-> <<>>,
                  ret |-> FALSE]

\* Mutant of ChecksRemain: one check more.
ChecksRemain_OneMore(check, max_checks) == check <= max_checks

\* Line 362: for check in range(max_checks).
ChecksRemain(check, max_checks) == check < max_checks

\* Mutant of StableChecks: equal sizes are not counted.
StableChecks_NeverCounted(current_size, last_size, n) == 0

\* Lines 366-371: the count of readings equal to the one before.
StableChecks(current_size, last_size, n) == IF current_size = last_size THEN n + 1 ELSE 0

\* Lines 362-385: one pass of the loop. A reading that raises is logged and the
\* loop goes on with the next check.
Sample(obs) ==
    /\ stable.at = "loop"
    /\ ChecksRemain(stable.check, stable.max_checks)
    /\ LET taken == [stable EXCEPT !.samples = Append(@, obs), !.check = @ + 1]
       IN IF obs.kind # "size"
             THEN stable' = taken
             ELSE LET n == StableChecks(obs.size, stable.last_size, stable.stable_checks)
                      read == [taken EXCEPT !.stable_checks = n, !.last_size = obs.size]
                  IN stable' = IF n >= required_stable_checks
                                  THEN [read EXCEPT !.at = "returned", !.ret = TRUE]
                                  ELSE read

\* Lines 387-388: the loop has ended, the file did not stabilize.
GiveUp ==
    /\ stable.at = "loop"
    /\ ~ChecksRemain(stable.check, stable.max_checks)
    /\ stable' = [stable EXCEPT !.at = "returned", !.ret = FALSE]

----------------------------------------------------------------------------
(* SpecStable: one call of wait_for_file_stable *)

MaxChecks == 5          \* max_checks ranges over 0..MaxChecks

InitStable ==
    /\ srcDir = EmptyDir /\ dstDir = EmptyDir /\ config = ConfigDefault
    /\ TransferIdle /\ CleanupIdle /\ WatcherIdle /\ OrchestratorIdle /\ StableIdle
    /\ FurtherIdle

NextStable ==
    /\ \/ \E max_checks \in 0..MaxChecks : WaitForFileStable(max_checks)
       \/ \E obs \in Observations : Sample(obs)
       \/ GiveUp
    /\ UNCHANGED <<fsVars, transferVars, cleanupVars, watcherVars, orchestratorVars,
                   furtherVars>>

SpecStable == InitStable /\ [][NextStable]_vars

\* The thread that called wait_for_file_stable keeps running.
SpecStableFair == SpecStable /\ WF_vars(NextStable)

----------------------------------------------------------------------------
(* Claims about wait_for_file_stable *)

\* The checks at which the size read equals the size read at the check before.
Repeats ==
    {i \in 2..Len(stable.samples) :
        /\ stable.samples[i].kind = "size" /\ stable.samples[i - 1].kind = "size"
        /\ stable.samples[i].size = stable.samples[i - 1].size}

\* C23: wait_for_file_stable returns true at the first check whose size equals the
\* size of the check immediately before it, and never before.
C23_StableAtFirstRepeat ==
    /\ \A i \in Repeats :
          stable.at = "returned" /\ stable.ret /\ Len(stable.samples) = i
    /\ (stable.at = "returned" /\ stable.ret) => Len(stable.samples) \in Repeats

\* C24: a check that finds the file missing is the last one: the call stops
\* sampling there and returns.
C24_MissingFailsFast ==
    \A i \in 1..Len(stable.samples) :
        stable.samples[i].kind = "missing" =>
            stable.at = "returned" /\ Len(stable.samples) = i

\* The last required_stable_checks + 1 size readings of the call are equal.
Stabilized ==
    \E i \in 1..Len(stable.samples) :
        LET sizes == SelectSeq(SubSeq(stable.samples, 1, i), LAMBDA o : o.kind = "size")
            n == Len(sizes)
        IN /\ stable.samples[i].kind = "size"
           /\ n > required_stable_checks
           /\ \A k \in n - required_stable_checks..n : sizes[k].size = sizes[n].size

\* C30: wait_for_file_stable terminates: it takes at most max_checks samples,
\* whatever they are (changing sizes, errors), and then returns, with false when
\* the size never stabilized.
C30_StableCheckTerminates ==
    /\ [](/\ Len(stable.samples) <= stable.max_checks
          /\ (stable.at = "returned" /\ ~Stabilized) => ~stable.ret)
    /\ <>(stable.at = "returned")

\* Five checks that never read the same size twice in a row, one of them raising:
\* the call has returned false.
C30_Witness ==
    /\ stable.at = "returned" /\ ~stable.ret
    /\ Len(stable.samples) = stable.max_checks
    /\ stable.max_checks >= 3
    /\ Repeats = {}
    /\ \E i \in 1..Len(stable.samples) : stable.samples[i].kind = "error"

----------------------------------------------------------------------------
(* Further claims about the CleanupManager *)

\* The listings _get_backup_files may return for a directory.
Listings(dir) ==
    {GetBackupFiles(dir, tars, gzs) :
        tars \in Orders(GlobTar(dir)), gzs \in Orders(GlobTarGz(dir))}

\* The files a call would name for deletion had the directory been listed as l.
CandidatesFor(op, force, l, max) ==
    IF op = "plan" THEN Range(CleanupPlan(l, max).to_delete)
    ELSE IF l = <<>> \/ SkipCleanup(force, Len(l), max) THEN {}
    ELSE Range(FileNames(SliceTo(SortByMtime(l), ToDeleteCount(Len(l), max))))

\* C25: the ranking of the destination files is deterministic (modification time,
\* then file name): the files a call names for deletion do not depend on the order
\* in which the directory was listed.
C25_CandidatesIndependentOfListing ==
    cleanup.op # "none" =>
        \A l \in Listings(cleanup.before) :
            CandidatesFor(cleanup.op, cleanup.force, l, max_backups)
                = CandidatesFor(cleanup.op, cleanup.force, cleanup.listing, max_backups)

----------------------------------------------------------------------------
(* Further claims about sync_existing_backups *)

LastEntry(log) == log[Len(log)]

\* The step appends an entry of kind ev to orchLog.
Logs(ev) ==
    /\ Len(orchLog') = Len(orchLog) + 1
    /\ LastEntry(orchLog').ev = ev

NamesAt(r, ev) == {RunLog(r)[i].name : i \in Positions(r, ev)}

\* No name skipped in a run is transferred in that run or returned by it.
SkippedStaySkipped ==
    \A r \in SyncRuns :
        /\ NamesAt(r, "skip") \cap NamesAt(r, "transfer") = {}
        /\ \A i \in Positions(r, "return") :
              NamesAt(r, "skip") \cap Range(RunLog(r)[i].synced) = {}

\* C26: sync_existing_backups never transfers an artifact whose name exists at the
\* destination: passing over it makes no copy attempt, leaves the destination
\* and the counters as they are, and the name is not in the returned list.
C26_ExistingAreSkipped ==
    [][/\ (Logs("skip") /\ call.op = "sync") =>
            /\ Exists(dstDir[LastEntry(orchLog').name])
            /\ UNCHANGED <<dstDir, srcDir, counterVars, transferVars>>
       /\ (call.op = "sync" /\ call.at = "loop" /\ call'.at = "transfer") =>
            ~Exists(dstDir[call'.name])
       /\ SkippedStaySkipped']_vars

\* A run passed over one artifact, transferred another, and returned the latter.
C26_Witness ==
    \E r \in SyncRuns :
        /\ Positions(r, "skip") # {}
        /\ \E i \in Positions(r, "return") : RunLog(r)[i].synced # <<>>

\* The names whose transfer succeeded in run r.
Succeeded(r) == {RunLog(r)[i].name : i \in {j \in Positions(r, "transfer") : RunLog(r)[j].ok}}

\* Every file of the listing has been passed over or transferred.
AllAttempted(r) ==
    (call.run = r /\ call.op = "sync" /\ call.at \in {"cleanup", "notify"}) =>
        {RunLog(r)[i].name : i \in Attempts(r)} = Range(call.source_backups)

\* C27: in sync_existing_backups the failure of one artifact's transfer never stops
\* the run: every other source artifact is still attempted, and the call returns
\* the list of every artifact whose transfer succeeded.
C27_FailureDoesNotStopRun ==
    \A r \in SyncRuns :
        /\ AllAttempted(r)
        /\ \A i \in Positions(r, "return") :
              /\ RunLog(r)[i].ok
              /\ Range(RunLog(r)[i].synced) = Succeeded(r)

\* A step in which the retention ran and some file could not be deleted.
RetentionFailed == Logs("retention") /\ cleanup'.failing # {}

\* C28: a failure of the retention that follows a successful transfer does not turn
\* the transfer into a failure: the counters stay as they are (backups_processed
\* incremented, backups_failed not), and the artifact is still reported as
\* processed (process_single_backup returns True, sync_existing_backups keeps it
\* in its list).
C28_RetentionFailureKeepsSuccess ==
    [][RetentionFailed =>
          /\ UNCHANGED counterVars
          /\ backups_processed >= 1
          /\ LastEntry(orchLog').ok
          /\ call.op = "sync" =>
                /\ call'.synced_backups = call.synced_backups
                /\ call.synced_backups # <<>>
                /\ ~call'.raised]_vars

\* process_single_backup has run the retention after a success, and a file could
\* not be deleted.
C28_Witness ==
    /\ orchLog # <<>> /\ LastEntry(orchLog).ev = "retention"
    /\ LastEntry(orchLog).op = "single"
    /\ cleanup.failing # {}
    /\ backups_processed = 1 /\ backups_failed = 0

\* The same in sync_existing_backups.
C28_WitnessSync ==
    /\ call.op = "sync" /\ call.at = "notify"
    /\ cleanup.failing # {}
    /\ call.synced_backups # <<>>

----------------------------------------------------------------------------
(* Further claims about continuous monitoring *)

\* Thread h of the observer hands its event to _process_backup_file in this step.
Hands(h) == handler[h].at = "process" /\ handler'[h].at = "idle"

\* C29: handling a qualifying, non-duplicate event starts one thread for the file
\* and returns without waiting for a transfer: the handler can always finish,
\* whatever process_backup is doing, its step starts exactly one thread for a valid
\* file and does no step of a transfer.
C29_HandlerDoesNotWait ==
    /\ [](\A h \in Handlers :
             (Alive /\ handler[h].at = "process") => ENABLED StartThread(h))
    /\ [][\A h \in Handlers : Hands(h) =>
             /\ UNCHANGED transferVars
             /\ threads' = IF ValidateFile(srcDir[handler[h].name])
                              THEN Append(threads, handler[h].name) ELSE threads]_vars

\* While the transfer of one backup is between two attempts, the thread for another
\* backup has been started.
C29_Witness ==
    /\ pc = "retry" /\ attemptLog # <<>>
    /\ threads # <<>> /\ Head(threads) # backup_path
    /\ \A h \in Handlers : handler[h].at = "idle"

----------------------------------------------------------------------------
(* Further claims about the debounce of the BackupWatcher *)

\* The positions of the log at which the debounce check of an event is made.
Checks(name) ==
    {k \in 1..Len(eventLog) : eventLog[k].ev = "check" /\ eventLog[k].name = name}

\* C31: the debounce check and the writing of the record are atomic: of two events
\* for the same file name checked less than the debounce window apart, on whatever
\* threads, at most one is forwarded to processing.
C31_CheckAndRecordAtomic ==
    \A name \in WatchNames : \A i, j \in Checks(name) :
        (i < j /\ eventLog[j].t - eventLog[i].t < debounce_seconds)
            => ~(Forwards(eventLog[i].id) = 1 /\ Forwards(eventLog[j].id) = 1)

----------------------------------------------------------------------------
(* Further claims about the BackupProcessor *)

\* process_backup has returned the failure of _copy_with_retry's last attempt.
ExhaustedResult ==
    /\ pc = "done" /\ ~result.success
    /\ attemptLog # <<>> /\ result.error = "Failed after max_retries attempts"

\* C32: after a transfer has returned a failed result with its retries exhausted,
\* no file written by one of its failed attempts is left at the destination path.
C32_NoFileLeftByFailedAttempts ==
    ExhaustedResult => ~Exists(dstDir[backup_path])

\* process_backup has ended without a verified copy: a failed result, or an exception.
EndedInFailure == (pc = "done" /\ ~result.success) \/ pc = "raised"

\* C33: a transfer that ends in failure leaves a destination file that existed under
\* the artifact's name before the transfer started as it was.
C33_FailureKeepsEarlierCopy ==
    (EndedInFailure /\ Exists(dst0[backup_path]))
        => dstDir[backup_path] = dst0[backup_path]

----------------------------------------------------------------------------
(* A second BackupProcessor-<name> thread: process_backup of the same
   BackupProcessor, called while the call of an earlier thread is in progress *)

\* The second thread is inside process_backup.
Worker2InFlight == worker2.at \notin {"idle", "returned", "raised"}

\* _process_in_thread, lines 150-161, and process_backup, lines 75-118: a thread
\* started while an earlier one is inside process_backup makes its own call. It
\* validates the source, sleeps wait_time, validates again and computes the
\* checksum; none of this writes.
Worker2Run ==
    /\ threads # <<>> /\ pc # "idle" /\ worker2.at = "idle"
    /\ LET name == Head(threads)
           f == srcDir[name]
       IN worker2' =
             IF ValidateChecks(f, name) = "Valid"
                THEN [at |-> "unlink", name |-> name, attempt |-> 1,
                      source_checksum |-> IF f.size < ChecksumLimit
                                             THEN Md5(f.data) ELSE None,
                      success |-> FALSE]
                ELSE [NoWorker2 EXCEPT !.at = "returned", !.name = name]
    /\ threads' = Tail(threads)
    /\ UNCHANGED <<fsVars, transferVars, cleanupVars, watcherVars, counterVars, lock,
                   call, orchLog, monitor>>

\* The second thread leaves an attempt that failed: _copy_with_retry, lines 255-266.
Worker2AttemptFailed ==
    IF AttemptsRemain(worker2.attempt, config.max_retries)
       THEN [worker2 EXCEPT !.at = "unlink", !.attempt = @ + 1]
       ELSE [worker2 EXCEPT !.at = "result", !.success = FALSE]

\* _copy_with_retry, lines 234-235: the destination found there is removed.
Worker2Unlink ==
    /\ worker2.at = "unlink"
    /\ dstDir' = [dstDir EXCEPT ![worker2.name] = NoFile]
    /\ worker2' = [worker2 EXCEPT !.at = "copy"]
    /\ UNCHANGED <<srcDir, config, transferVars, cleanupVars, watcherVars,
                   orchestratorVars>>

\* _copy_with_retry, line 238: shutil.copy2 of the second thread.
Worker2Copy ==
    /\ worker2.at = "copy"
    /\ LET src == srcDir[worker2.name]
       IN \/ /\ ~Exists(src)
             /\ worker2' = Worker2AttemptFailed
             /\ UNCHANGED dstDir
          \/ /\ Exists(src)
             /\ \E outcome \in CopyOutcomes :
                  CASE outcome = "copied" ->
                         /\ dstDir' = [dstDir EXCEPT ![worker2.name] = src]
                         /\ worker2' = [worker2 EXCEPT !.at = "verify"]
                    [] outcome = "short" ->
                         /\ dstDir' = [dstDir EXCEPT
                                          ![worker2.name] = Truncated(src, src.mtime)]
                         /\ worker2' = [worker2 EXCEPT !.at = "verify"]
                    [] outcome = "garbled" ->
                         /\ \E d \in Contents \ {src.data} :
                              dstDir' = [dstDir EXCEPT
                                            ![worker2.name] = [src EXCEPT !.data = d]]
                         /\ worker2' = [worker2 EXCEPT !.at = "verify"]
                    [] outcome = "error" ->
                         /\ worker2' = Worker2AttemptFailed
                         /\ UNCHANGED dstDir
                    [] outcome = "error_partial" ->
                         /\ dstDir' = [dstDir EXCEPT
                                          ![worker2.name] = Truncated(src, FreshMtime)]
                         /\ worker2' = Worker2AttemptFailed
    /\ UNCHANGED <<srcDir, config, transferVars, cleanupVars, watcherVars,
                   orchestratorVars>>

\* _copy_with_retry, lines 240-249: the verification of the second thread.
Worker2Verify ==
    /\ worker2.at = "verify"
    /\ worker2' =
          IF VerifyCopy(srcDir[worker2.name], dstDir[worker2.name],
                        worker2.source_checksum).ok
             THEN [worker2 EXCEPT !.at = "result", !.success = TRUE]
             ELSE Worker2AttemptFailed
    /\ UNCHANGED <<fsVars, transferVars, cleanupVars, watcherVars, orchestratorVars>>

\* process_backup, lines 123-144: the result of the second thread (the stat of the
\* destination raises when the file is gone).
Worker2Result ==
    /\ worker2.at = "result"
    /\ worker2' =
          IF ~Exists(srcDir[worker2.name])
                \/ (worker2.success /\ ~Exists(dstDir[worker2.name]))
             THEN [worker2 EXCEPT !.at = "raised", !.success = FALSE]
             ELSE [worker2 EXCEPT !.at = "returned"]
    /\ UNCHANGED <<fsVars, transferVars, cleanupVars, watcherVars, orchestratorVars>>

\* _process_in_thread, lines 163-187: the second thread hands its result to the
\* callbacks, of which there are none, and ends.
Worker2End ==
    /\ worker2.at \in {"returned", "raised"}
    /\ orchLog' = Append(orchLog,
           OrchEntry("transfer", "monitor", 0, worker2.name, worker2.success,
                     worker2.attempt > 0, <<>>))
    /\ worker2' = NoWorker2
    /\ UNCHANGED <<fsVars, transferVars, cleanupVars, watcherVars, counterVars, lock,
                   call, monitor, threads>>

----------------------------------------------------------------------------
(* SpecRace: monitoring is running and events for a.tar arrive while the thread
   of an earlier event is inside process_backup *)

RaceNames == { <<"a", "tar">> }

RaceConfigs == {[wait_time |-> 1, max_retries |-> n, retry_delay |-> 1] : n \in 1..2}

InitRace ==
    /\ srcDir = [EmptyDir EXCEPT ![<<"a", "tar">>] = RegularFile(2, 0, 1)]
    /\ dstDir = EmptyDir
    /\ config \in RaceConfigs
    /\ TransferIdle /\ CleanupIdle /\ WatcherIdle
    /\ backups_processed = 0 /\ backups_failed = 0 /\ last_backup_time = None
    /\ lock = "free" /\ call = NoOrchestratorCall /\ orchLog = <<>>
    /\ monitor = [is_monitoring |-> TRUE, is_running |-> TRUE, at |-> "loop"]
    /\ threads = <<>>
    /\ StableIdle /\ FurtherIdle

NextRace ==
    /\ \/ /\ \/ \E h \in Dispatcher, kind \in {"created", "moved"}, name \in RaceNames :
                   OnEvent(h, kind, name, FALSE)
             \/ \E h \in Dispatcher : RecordEvent(h)
             \/ Tick
          /\ UNCHANGED <<fsVars, transferVars, cleanupVars, orchestratorVars, raceVars>>
       \/ (\E h \in Dispatcher : StartThread(h)) /\ UNCHANGED raceVars
       \/ ThreadRun /\ UNCHANGED raceVars
       \/ ThreadEnd /\ UNCHANGED raceVars
       \/ /\ \/ ProcessBackup \/ Validate \/ Settle \/ Wait \/ Checksum
             \/ Copy \/ Verify \/ Retry \/ Exhausted \/ Result
          /\ UNCHANGED <<cleanupVars, watcherVars, orchestratorVars, raceVars>>
       \/ Worker2Run \/ Worker2Unlink \/ Worker2Copy \/ Worker2Verify
       \/ Worker2Result \/ Worker2End
    /\ UNCHANGED <<stableVars, statusVars, stopVars, callbackVars, syncVars>>

SpecRace == InitRace /\ [][NextRace]_vars

----------------------------------------------------------------------------
(* Claims about concurrent transfers of one file *)

\* Two threads are inside process_backup for the same file.
TwoInFlight == Running /\ Worker2InFlight /\ worker2.name = backup_path

\* The first thread returns a successful result in this step.
ReportsSuccess == pc = "result" /\ pc' = "done" /\ result'.success

\* C34: in continuous monitoring at most one transfer is in flight for a file name
\* at any time, so that a worker never reports success for a destination file that
\* another worker has removed or is rewriting: when it reports success, the
\* destination is the copy that verified.
C34_OneTransferPerName ==
    [][/\ ~TwoInFlight'
       /\ ReportsSuccess =>
             VerifyCopy(srcDir[backup_path], dstDir[backup_path],
                        source_checksum).ok]_vars

----------------------------------------------------------------------------
(* Claims about how process_backup ends *)

\* The last attempt of the call produced a copy that verified.
VerifiedCopyProduced ==
    attemptLog # <<>> /\ attemptLog[Len(attemptLog)].verified

\* C35: process_backup always ends by returning a result and never by raising,
\* also when the source file is removed between the pre-validation and the
\* construction of the result; the success flag of the result agrees with whether
\* a verified copy was produced.
C35_ReturnsResultNeverRaises ==
    /\ pc # "raised"
    /\ pc = "done" => (result.success <=> VerifiedCopyProduced)

----------------------------------------------------------------------------
(* Claims about retention after a transfer *)

\* The files the transfers of run r copied and verified.
Transferred(r) ==
    {orchLog[k].name : k \in {i \in 1..Len(orchLog) :
        orchLog[i].ev = "transfer" /\ orchLog[i].run = r /\ orchLog[i].ok}}

\* C36: when retention runs after a successful transfer, the artifact that was just
\* transferred is never among the files it deletes, whatever modification time the
\* copy inherited from its source.
C36_RetentionKeepsTransferred ==
    cleanup.op = "apply" =>
        Transferred(call.run) \cap Range(cleanup.deleted_files) = {}

----------------------------------------------------------------------------
(* The counters of the BackupOrchestrator, statement by statement, and get_status *)

\* sync_existing_backups, lines 199-201 and 205-206 (process_single_backup, lines
\* 253-255 and 263-264): a run takes self.lock and counts the result `ok` of
\* process_backup.
RecordBegin(ok) ==
    /\ recording = "idle" /\ lock = "free"
    /\ backups_processed + backups_failed < MaxResults
    /\ lock' = "sync"
    /\ backups_processed' = IF ok THEN backups_processed + 1 ELSE backups_processed
    /\ backups_failed' = IF ok THEN backups_failed ELSE backups_failed + 1
    /\ recording' = IF ok THEN "time" ELSE "release"
    /\ UNCHANGED <<last_backup_time, now, status>>

\* sync_existing_backups, line 202 (process_single_backup, line 256), still under
\* the lock: self.last_backup_time = datetime.now().
RecordTime ==
    /\ recording = "time"
    /\ now' = now + 1
    /\ last_backup_time' = LastBackupTime(TRUE, now', last_backup_time)
    /\ recording' = "release"
    /\ UNCHANGED <<backups_processed, backups_failed, lock, status>>

\* The end of the `with self.lock` block.
RecordRelease ==
    /\ recording = "release"
    /\ lock' = "free"
    /\ recording' = "idle"
    /\ UNCHANGED <<backups_processed, backups_failed, last_backup_time, now, status>>

\* get_status, lines 274-279: the call begins; self.lock is not taken.
GetStatus ==
    /\ status.at = "idle"
    /\ status' = [NoStatus EXCEPT !.at = "processed"]
    /\ UNCHANGED <<counterVars, lock, now, recording>>

\* get_status, line 280: backups_processed=self.backups_processed.
ReadProcessed ==
    /\ status.at = "processed"
    /\ status' = [status EXCEPT !.backups_processed = backups_processed,
                                !.at = "failed"]
    /\ UNCHANGED <<counterVars, lock, now, recording>>

\* get_status, line 281: backups_failed=self.backups_failed.
ReadFailed ==
    /\ status.at = "failed"
    /\ status' = [status EXCEPT !.backups_failed = backups_failed,
                                !.at = "last_backup_time"]
    /\ UNCHANGED <<counterVars, lock, now, recording>>

\* get_status, lines 282-285: last_backup_time=self.last_backup_time, and the
\* OrchestratorStatus is returned.
ReadLastBackupTime ==
    /\ status.at = "last_backup_time"
    /\ status' = [status EXCEPT !.last_backup_time = last_backup_time,
                                !.at = "returned"]
    /\ UNCHANGED <<counterVars, lock, now, recording>>

\* The caller has taken the OrchestratorStatus.
StatusTaken ==
    /\ status.at = "returned"
    /\ status' = NoStatus
    /\ UNCHANGED <<counterVars, lock, now, recording>>

----------------------------------------------------------------------------
(* SpecStatus: get_status called while runs of the pipeline count their results *)

InitStatus ==
    /\ srcDir = EmptyDir /\ dstDir = EmptyDir /\ config = ConfigDefault
    /\ TransferIdle /\ CleanupIdle /\ WatcherIdle /\ OrchestratorIdle /\ StableIdle
    /\ FurtherIdle

NextStatus ==
    /\ \/ \E ok \in BOOLEAN : RecordBegin(ok)
       \/ RecordTime \/ RecordRelease
       \/ GetStatus \/ ReadProcessed \/ ReadFailed \/ ReadLastBackupTime
       \/ StatusTaken
    /\ UNCHANGED <<fsVars, transferVars, cleanupVars, recently_processed, handler,
                   eventLog, call, orchLog, monitorVars, stableVars, raceVars,
                   stopVars, callbackVars, syncVars>>

SpecStatus == InitStatus /\ [][NextStatus]_vars

----------------------------------------------------------------------------
(* Claims about get_status *)

\* C37: every status snapshot get_status returns while runs of the pipeline execute
\* equals the counters of one state of the orchestrator between two updates: it
\* shows a last_backup_time exactly when it shows backups_processed >= 1, and
\* never backups_processed >= 1 together with last_backup_time = None.
C37_SnapshotIsOneState ==
    status.at = "returned" =>
        (status.backups_processed >= 1 <=> status.last_backup_time # None)

----------------------------------------------------------------------------
(* start_monitoring and stop_monitoring, statement by statement *)

\* start_monitoring, lines 94-109: is_monitoring is tested; the watch is scheduled
\* and the observer started.
StartCheck ==
    /\ monitor.at = "idle"
    /\ monitor' = [monitor EXCEPT !.at = IF monitor.is_monitoring
                                            THEN "stopped" ELSE "set_monitoring"]
    /\ UNCHANGED stopVars

\* start_monitoring, line 110: self.is_monitoring = True.
StartSetMonitoring ==
    /\ monitor.at = "set_monitoring"
    /\ monitor' = [monitor EXCEPT !.is_monitoring = TRUE, !.at = "set_running"]
    /\ UNCHANGED stopVars

\* start_monitoring, line 111: self.is_running = True.
StartSetRunning ==
    /\ monitor.at = "set_running"
    /\ monitor' = [monitor EXCEPT !.is_running = TRUE, !.at = "notify"]
    /\ UNCHANGED stopVars

\* start_monitoring, lines 113-121 and 129-134: the start notification; when it
\* raises, the handler notifies the error and `finally` follows.
StartNotify ==
    /\ monitor.at = "notify"
    /\ \E info \in NotifierOutcomes :
         monitor' = [monitor EXCEPT !.at = IF info = "sent" THEN "loop" ELSE "finally"]
    /\ UNCHANGED stopVars

\* start_monitoring, lines 124-125: `while self.is_running: time.sleep(1)` is left
\* when the flag is found cleared; until then the thread sleeps and tests again.
StartLoopExit ==
    /\ monitor.at = "loop"
    /\ ~monitor.is_running
    /\ monitor' = [monitor EXCEPT !.at = "finally"]
    /\ UNCHANGED stopVars

\* start_monitoring, lines 135-136: `finally` calls stop_monitoring.
StartFinally ==
    /\ monitor.at = "finally" /\ stopCall["main"] = "none"
    /\ stopCall' = [stopCall EXCEPT !["main"] = "check"]
    /\ UNCHANGED <<monitor, stops>>

\* start_monitoring returns when the stop_monitoring of its `finally` has returned.
StartReturn ==
    /\ monitor.at = "finally" /\ stopCall["main"] = "returned"
    /\ monitor' = [monitor EXCEPT !.at = "stopped"]
    /\ stopCall' = [stopCall EXCEPT !["main"] = "none"]
    /\ UNCHANGED stops

\* Another thread calls stop_monitoring after start_monitoring has begun.
StopCalled ==
    /\ monitor.at # "idle"
    /\ stopCall["other"] \in {"none", "returned"}
    /\ stops < MaxStops
    /\ stopCall' = [stopCall EXCEPT !["other"] = "check"]
    /\ stops' = stops + 1
    /\ UNCHANGED monitor

\* stop_monitoring, lines 140-141: `if not self.is_monitoring: return`.
StopCheck(t) ==
    /\ stopCall[t] = "check"
    /\ stopCall' = [stopCall EXCEPT ![t] = IF monitor.is_monitoring
                                              THEN "clear_running" ELSE "returned"]
    /\ UNCHANGED <<monitor, stops>>

\* stop_monitoring, line 146: self.is_running = False.
StopClearRunning(t) ==
    /\ stopCall[t] = "clear_running"
    /\ monitor' = [monitor EXCEPT !.is_running = FALSE]
    /\ stopCall' = [stopCall EXCEPT ![t] = "clear_monitoring"]
    /\ UNCHANGED stops

\* stop_monitoring, lines 147-163: self.is_monitoring = False; the observer is
\* stopped and joined and the stop notification sent (its exception is logged).
StopClearMonitoring(t) ==
    /\ stopCall[t] = "clear_monitoring"
    /\ monitor' = [monitor EXCEPT !.is_monitoring = FALSE]
    /\ stopCall' = [stopCall EXCEPT ![t] = "returned"]
    /\ UNCHANGED stops

----------------------------------------------------------------------------
(* SpecStop: start_monitoring on the main thread, stop_monitoring called from
   another thread *)

InitStop ==
    /\ srcDir = EmptyDir /\ dstDir = EmptyDir /\ config = ConfigDefault
    /\ TransferIdle /\ CleanupIdle /\ WatcherIdle /\ OrchestratorIdle /\ StableIdle
    /\ FurtherIdle

\* What start_monitoring and stop_monitoring leave alone.
StopFrame ==
    UNCHANGED <<fsVars, transferVars, cleanupVars, watcherVars, counterVars, lock,
                call, orchLog, threads, stableVars, raceVars, statusVars,
                callbackVars, syncVars>>

\* The steps of the thread inside start_monitoring.
MainSteps ==
    /\ \/ StartCheck \/ StartSetMonitoring \/ StartSetRunning \/ StartNotify
       \/ StartLoopExit \/ StartFinally \/ StartReturn
       \/ StopCheck("main") \/ StopClearRunning("main") \/ StopClearMonitoring("main")
    /\ StopFrame

\* The steps of the other thread inside stop_monitoring.
OtherSteps ==
    /\ \/ StopCheck("other") \/ StopClearRunning("other")
       \/ StopClearMonitoring("other")
    /\ StopFrame

NextStop == MainSteps \/ (StopCalled /\ StopFrame) \/ OtherSteps

SpecStop == InitStop /\ [][NextStop]_vars

\* Both threads keep running.
SpecStopFair == SpecStop /\ WF_vars(MainSteps) /\ WF_vars(OtherSteps)

----------------------------------------------------------------------------
(* Claims about stopping the monitoring *)

\* start_monitoring has returned with both flags cleared.
ReturnedStopped ==
    monitor.at = "stopped" /\ ~monitor.is_running /\ ~monitor.is_monitoring

\* C38: once stop_monitoring has been called after start_monitoring began,
\* start_monitoring eventually returns with is_running and is_monitoring false, and
\* the flags never reach is_running = true with is_monitoring = false, a state in
\* which a further stop_monitoring is a no-op.
C38_StopEndsMonitoring ==
    /\ [](~(monitor.is_running /\ ~monitor.is_monitoring))
    /\ (stops >= 1) ~> ReturnedStopped

----------------------------------------------------------------------------
(* BackupWatcher: registered callbacks and _process_in_thread *)

\* register_callback, lines 279-296: the callback is appended to the list of a
\* known event type.
RegisterCallback(event_type) ==
    /\ inThread = "none"
    /\ callbacks[event_type] < MaxCallbacks
    /\ callbacks' = [callbacks EXCEPT ![event_type] = @ + 1]
    /\ UNCHANGED <<fsVars, transferVars, inThread, fired>>

\* Mutant of CallbackEscapes: the exception of a callback leaves _trigger_callbacks.
CallbackEscapes_Uncaught(raised) == raised > 0

\* _trigger_callbacks, lines 320-324: each callback is called inside try/except
\* Exception; `raised` of them raise. No exception leaves the method.
CallbackEscapes(raised) == FALSE

\* One call of _trigger_callbacks(event_type, ...) in which `raised` callbacks raise.
Triggered(event_type, raised) ==
    [event_type |-> event_type, called |-> callbacks[event_type], raised |-> raised]

\* _process_in_thread, lines 150-161: the thread started for `name` triggers
\* 'backup_processing_started' and calls process_backup.
ProcessInThread(name) ==
    /\ inThread = "none" /\ pc = "idle"
    /\ \E raised \in 0..callbacks["backup_processing_started"] :
         /\ fired' = Append(fired, Triggered("backup_processing_started", raised))
         /\ IF CallbackEscapes(raised)
               THEN /\ inThread' = "except"
                    /\ UNCHANGED transferVars
               ELSE /\ inThread' = "processing"
                    /\ BeginProcessBackup(name)
    /\ UNCHANGED <<fsVars, callbacks>>

\* _process_in_thread, lines 163-178: process_backup has returned and the callbacks
\* of the result's event type are triggered; an exception of process_backup goes
\* to the handler of line 180.
ThreadResult ==
    /\ inThread = "processing"
    /\ ProcessBackupEnded
    /\ IF pc = "raised"
          THEN /\ inThread' = "except"
               /\ UNCHANGED fired
          ELSE LET event_type == IF result.success
                                    THEN "backup_processing_completed"
                                    ELSE "backup_processing_failed"
               IN \E raised \in 0..callbacks[event_type] :
                    /\ fired' = Append(fired, Triggered(event_type, raised))
                    /\ inThread' = IF CallbackEscapes(raised) THEN "except" ELSE "ended"
    /\ UNCHANGED <<fsVars, transferVars, callbacks>>

\* _process_in_thread, lines 180-187: the handler triggers 'backup_processing_failed'
\* and the thread ends.
ThreadExcept ==
    /\ inThread = "except"
    /\ \E raised \in 0..callbacks["backup_processing_failed"] :
         fired' = Append(fired, Triggered("backup_processing_failed", raised))
    /\ inThread' = "ended"
    /\ UNCHANGED <<fsVars, transferVars, callbacks>>

----------------------------------------------------------------------------
(* SpecCallbacks: callbacks are registered and a thread is started for a.tar *)

InitCallbacks ==
    /\ srcDir = [EmptyDir EXCEPT ![<<"a", "tar">>] = RegularFile(2, 0, 1)]
    /\ dstDir = EmptyDir
    /\ config \in SyncConfigs
    /\ TransferIdle /\ CleanupIdle /\ WatcherIdle /\ OrchestratorIdle /\ StableIdle
    /\ FurtherIdle

NextCallbacks ==
    /\ \/ \E event_type \in EventTypes : RegisterCallback(event_type)
       \/ ProcessInThread(<<"a", "tar">>)
       \/ ThreadResult \/ ThreadExcept
       \/ /\ \/ ProcessBackup \/ Validate \/ Settle \/ Wait \/ Checksum
             \/ Copy \/ Verify \/ Retry \/ Exhausted \/ Result
             \/ SourceVanishes
          /\ UNCHANGED callbackVars
    /\ UNCHANGED <<cleanupVars, watcherVars, orchestratorVars, stableVars, raceVars,
                   statusVars, stopVars, syncVars>>

SpecCallbacks == InitCallbacks /\ [][NextCallbacks]_vars

----------------------------------------------------------------------------
(* Claims about the callbacks of a worker *)

\* The event type of the terminal callback that belongs to the call's outcome.
TerminalFor ==
    IF pc = "done" /\ result.success THEN "backup_processing_completed"
                                     ELSE "backup_processing_failed"

\* C39: for a worker started for an artifact the callbacks fire in the order
\* backup_processing_started, then exactly one terminal callback - completed after
\* a successful result, failed otherwise - never both and never neither, also when
\* process_backup raises or a registered callback raises.
C39_StartedThenOneTerminal ==
    /\ Len(fired) <= 2
    /\ fired # <<>> => fired[1].event_type = "backup_processing_started"
    /\ Len(fired) = 2 => fired[2].event_type = TerminalFor
    /\ inThread = "ended" <=> Len(fired) = 2

\* A worker whose process_backup raised has ended, and a callback raised in both
\* of its triggers.
C39_Witness ==
    /\ inThread = "ended" /\ pc = "raised"
    /\ fired[1].raised > 0 /\ fired[2].raised > 0

\* A worker has ended after a success, and its completion callback raised.
C39_WitnessCompleted ==
    /\ inThread = "ended" /\ pc = "done" /\ result.success
    /\ fired[2].raised > 0

----------------------------------------------------------------------------
(* BackupSyncHandler (backup_sync.py): the standalone handler *)

\* Mutant of InProcessing: the set is not consulted.
InProcessing_NotChecked(path) == FALSE

\* process_backup, line 61: `file_path in self.processing_files`.
InProcessing(path) == path \in processing_files

\* process_backup, lines 57-63, called by on_created or by sync_existing_backups:
\* under self.lock the path is looked up and, when absent, added. A call that
\* finds it returns.
HandlerProcessBackup(t, path) ==
    /\ syncCall[t].at = "idle"
    /\ IF InProcessing(path)
          THEN /\ syncCall' = [syncCall EXCEPT ![t] =
                      [at |-> "returned", path |-> path, file_size |-> 0,
                       how |-> "skipped"]]
               /\ UNCHANGED processing_files
          ELSE /\ processing_files' = processing_files \cup {path}
               /\ syncCall' = [syncCall EXCEPT ![t] =
                      [at |-> "wait", path |-> path, file_size |-> 0, how |-> ""]]
    /\ UNCHANGED <<fsVars, max_copies>>

\* process_backup, lines 65-81: the sleep, then the early returns for a file that
\* is gone or empty (stat raises for a file that has just gone).
HandlerWait(t) ==
    /\ syncCall[t].at = "wait"
    /\ LET f == srcDir[syncCall[t].path]
       IN syncCall' = [syncCall EXCEPT ![t] =
             IF ~Exists(f) THEN [@ EXCEPT !.at = "finally", !.how = "missing"]
             ELSE IF f.size = 0 THEN [@ EXCEPT !.at = "finally", !.how = "empty"]
             ELSE [@ EXCEPT !.at = "copy", !.file_size = f.size]]
    /\ UNCHANGED <<fsVars, max_copies, processing_files>>

\* What shutil.copy2 may do here: copy, return with a short file, or raise.
SyncCopyOutcomes == {"copied", "short", "error"}

\* process_backup, lines 84-88 and 98-99: shutil.copy2; an exception is logged.
HandlerCopy(t) ==
    /\ syncCall[t].at = "copy"
    /\ LET path == syncCall[t].path
           src == srcDir[path]
       IN \E outcome \in SyncCopyOutcomes :
            CASE outcome = "copied" ->
                   /\ dstDir' = [dstDir EXCEPT ![path] = src]
                   /\ syncCall' = [syncCall EXCEPT ![t].at = "verify"]
              [] outcome = "short" ->
                   /\ dstDir' = [dstDir EXCEPT ![path] = Truncated(src, src.mtime)]
                   /\ syncCall' = [syncCall EXCEPT ![t].at = "verify"]
              [] outcome = "error" ->
                   /\ syncCall' = [syncCall EXCEPT ![t].at = "finally",
                                                   ![t].how = "error"]
                   /\ UNCHANGED dstDir
    /\ UNCHANGED <<srcDir, config, max_copies, processing_files>>

\* cleanup_old_backups of the handler, lines 104-129, on the listing `tars`: the
\* files beyond max_copies are unlinked, oldest first; the unlink number `fail`
\* raises (none when fail = 0), which ends the loop.
HandlerCleanup(dir, tars, fail) ==
    LET backup_files == GetBackupFiles(dir, tars, <<>>)
        sorted == SortByMtime(backup_files)
        to_delete == Len(backup_files) - max_copies
        gone == Range(FileNames(SliceTo(sorted,
                    IF fail = 0 THEN to_delete ELSE Min(fail - 1, to_delete))))
    IN IF Len(backup_files) <= max_copies
          THEN dir
          ELSE [n \in Names |-> IF n \in gone THEN NoFile ELSE dir[n]]

\* process_backup, lines 90-96: the size of the copy is compared and, when it
\* matches, the old backups are cleaned up.
HandlerVerify(t) ==
    /\ syncCall[t].at = "verify"
    /\ LET dest_file == dstDir[syncCall[t].path]
       IN IF Exists(dest_file) /\ dest_file.size = syncCall[t].file_size
             THEN /\ \E tars \in Orders(GlobTar(dstDir)), fail \in 0..1 :
                       dstDir' = HandlerCleanup(dstDir, tars, fail)
                  /\ syncCall' = [syncCall EXCEPT ![t].at = "finally",
                                                  ![t].how = "copied"]
             ELSE /\ syncCall' = [syncCall EXCEPT ![t].at = "finally",
                                                  ![t].how = "mismatch"]
                  /\ UNCHANGED dstDir
    /\ UNCHANGED <<srcDir, config, max_copies, processing_files>>

\* process_backup, lines 100-102: `finally` discards the path under self.lock.
HandlerFinally(t) ==
    /\ syncCall[t].at = "finally"
    /\ processing_files' = processing_files \ {syncCall[t].path}
    /\ syncCall' = [syncCall EXCEPT ![t].at = "returned"]
    /\ UNCHANGED <<fsVars, max_copies>>

\* The caller (on_created, sync_existing_backups) goes on.
HandlerReturned(t) ==
    /\ syncCall[t].at = "returned"
    /\ syncCall' = [syncCall EXCEPT ![t] = NoSyncCall]
    /\ UNCHANGED <<fsVars, max_copies, processing_files>>

----------------------------------------------------------------------------
(* SpecSync: two threads call process_backup of one BackupSyncHandler *)

SyncPaths == { <<"a", "tar">>, <<"b", "tar">> }

\* The source holds a.tar; b.tar is there, is empty, or is gone.
InitSync ==
    /\ \E g \in {NoFile, RegularFile(0, 0, 2), RegularFile(2, 1, 2)} :
         srcDir = [EmptyDir EXCEPT ![<<"a", "tar">>] = RegularFile(2, 0, 1),
                                   ![<<"b", "tar">>] = g]
    /\ dstDir \in {EmptyDir, [EmptyDir EXCEPT ![<<"c", "tar">>] = Backup(MaxMtime)]}
    /\ config = ConfigDefault
    /\ TransferIdle /\ CleanupIdle /\ WatcherIdle /\ OrchestratorIdle /\ StableIdle
    /\ FurtherIdle

NextSync ==
    /\ \E t \in Handlers :
          \/ \E path \in SyncPaths : HandlerProcessBackup(t, path)
          \/ HandlerWait(t) \/ HandlerCopy(t) \/ HandlerVerify(t)
          \/ HandlerFinally(t) \/ HandlerReturned(t)
    /\ UNCHANGED <<transferVars, cleanupVars, watcherVars, orchestratorVars,
                   stableVars, raceVars, statusVars, stopVars, callbackVars>>

SpecSync == InitSync /\ [][NextSync]_vars

----------------------------------------------------------------------------
(* Claims about the BackupSyncHandler *)

\* Thread t is inside the section of process_backup that follows the membership
\* test: the wait, the copy, the cleanup, the `finally`.
InSection(t) == syncCall[t].at \in {"wait", "copy", "verify", "finally"}

\* The threads that are inside the section for `path`.
Inside(path) == {t \in Handlers : InSection(t) /\ syncCall[t].path = path}

\* C40: for any path at most one thread at a time is inside the wait/copy/cleanup
\* section of process_backup; a call that finds the path in processing_files
\* returns without copying; the path is in processing_files exactly while the call
\* that added it runs, also when that call ends by an exception or an early
\* return, so that a later event for the path is processed again.
C40_OneCallPerPath ==
    /\ \A path \in SyncPaths :
          Cardinality(Inside(path)) = IF path \in processing_files THEN 1 ELSE 0
    /\ processing_files \subseteq SyncPaths
    /\ \A t \in Handlers :
          (syncCall[t].at = "idle" /\ Inside(<<"a", "tar">>) = {})
              => ENABLED (HandlerProcessBackup(t, <<"a", "tar">>)
                             /\ syncCall'[t].at = "wait")

\* A call for a.tar has returned without copying while the other thread is inside
\* the section for a.tar.
C40_Witness ==
    \E t, u \in Handlers :
        /\ syncCall[t].at = "returned" /\ syncCall[t].how = "skipped"
        /\ syncCall[t].path = <<"a", "tar">>
        /\ InSection(u) /\ syncCall[u].path = <<"a", "tar">>

\* A call has ended by an exception, another by an early return, and both paths
\* are out of processing_files.
C40_WitnessEnded ==
    /\ syncCall["t1"].at = "returned" /\ syncCall["t1"].how = "error"
    /\ syncCall["t2"].at = "returned" /\ syncCall["t2"].how \in {"missing", "empty"}
    /\ processing_files = {}

====
